---- MODULE Spec2Model ----
(***************************************************************************)
(* Model of the Redactor pipeline controller (src/workflow.py): the worker *)
(* thread ProcessingWorkflow.run, the concurrent ProcessingWorkflow.stop,  *)
(* the stage collaborators as seen through their return values and their   *)
(* effect on the file system, and cleanup_temp_files (src/utils.py).       *)
(*                                                                         *)
(* Encoding of Python values:                                              *)
(*   - a path is a string; None is the string "None", "" the empty path;   *)
(*   - an optional non-path value is a sequence of length <= 1:            *)
(*     <<>> is None and <<v>> is the value v;                              *)
(*   - a progress value is kept in hundredths (0..100) of the float the    *)
(*     callback receives.                                                  *)
(***************************************************************************)
EXTENDS Integers, Sequences, FiniteSets, TLC

VARIABLES
    pc,                  \* position of the worker thread in run()
    stop_requested,      \* self._stop_requested (threading.Event)
    stopPc,              \* position of the caller's thread inside stop()
    stopCalls,           \* number of stop() calls begun so far
    video_path,          \* self.video_path
    output_dir,          \* self.output_dir
    files,               \* regular files that exist
    dirs,                \* directories that exist
    temp_audio_original, \* self.temp_audio_original
    temp_audio_censored, \* self.temp_audio_censored
    word_timestamps,     \* local of run(): <<>> is None, <<list>> a list
    idx,                 \* local i of the classification loop (0-based)
    segments_to_censor,  \* local of run()
    censored_path,       \* local of run()
    final_output_path,   \* local of run()
    reassembly_ok,       \* local of run()
    success,             \* local of run()
    events,              \* what the three callbacks received, in order
    calls,               \* collaborator invocations, in order
    cleanups,            \* number of cleanup_temp_files calls
    delFailed,           \* some deletion attempted by the run has failed
    flagSetPc,           \* worker positions at which the flag was set
    callsAtFlagSet,      \* number of collaborator invocations when the flag was set
    created,             \* files written by the run's collaborators
    original_duration_ms, \* censor_audio: len(audio) of the loaded original
    applied,             \* censor_audio: the <<start_ms, end_ms>> overlaid, in order
    censor_via,          \* censor_audio: how output_path was written ("" not yet)
    synth_failed,        \* censor_audio: positions in `applied` whose tone synthesis raised
    beep_sounds,         \* censor_audio: the sounds overlaid, in order
    final_audio,         \* censor_audio: the audio written to output_path
    escaped_from,        \* where the exception that leaves run() was raised ("" none)
    CONFIG,              \* utils.CONFIG as read by classify_word
    classifier_env,      \* what loading the model or keyword file and inference do
    classified,          \* result of the classify_word call: << >> none yet
    action_button,       \* RedactorApp: state of the Start button
    processing_thread,   \* RedactorApp.processing_thread: 0 is None, else a thread
    workers,             \* phase of every ProcessingWorkflow thread started
    after_queue,         \* pending self.after(0, self.processing_complete, ...) calls
    window,              \* the application window: "open" or "destroyed"
    selected_input_file, \* RedactorApp.selected_input_file
    selected_output_dir, \* RedactorApp.selected_output_dir
    whisper_result       \* transcribe_audio: what model.transcribe returns

vars == << pc, stop_requested, stopPc, stopCalls, video_path, output_dir,
           files, dirs, temp_audio_original, temp_audio_censored,
           word_timestamps, idx, segments_to_censor, censored_path,
           final_output_path, reassembly_ok, success, events, calls,
           cleanups, delFailed, flagSetPc, callsAtFlagSet, created,
           original_duration_ms,
           applied, censor_via, synth_failed, beep_sounds, final_audio,
           escaped_from, CONFIG, classifier_env, classified, action_button,
           processing_thread, workers, after_queue, window,
           selected_input_file, selected_output_dir, whisper_result >>

----------------------------------------------------------------------------
(* Bounds of the model *)

MaxWords == 2      \* longest short word list the transcriber returns
LongWords == 52   \* length of the long word list (crosses i % 50 == 0)
MaxStops == 1      \* stop() calls per run: on_closing calls it once, then destroys the window
MaxCollide == 1    \* output candidates 0..MaxCollide may already exist
TicksPerMs == 2    \* resolution of a time in seconds: ticks per millisecond
MaxTick == 4       \* latest time in seconds (in ticks) of an enumerated interval
MaxSegs == 2       \* longest enumerated list of flagged intervals
MaxDur == 2        \* longest enumerated audio duration in ms
MaxRuns == 4       \* ProcessingWorkflow threads the application starts

----------------------------------------------------------------------------
(* Python values *)

None == "None"

Falsy(p) == p \in {None, ""}

IsNone(opt) == opt = <<>>

Some(v) == <<v>>

Max(a, b) == IF a >= b THEN a ELSE b

Min(a, b) == IF a <= b THEN a ELSE b

----------------------------------------------------------------------------
(* Paths *)

VideoFile == "v.mp4"

OtherTemp == "tmp_other"

OutDir == "outdir"

ExtractedPath == "tmp_audio_extracted.wav"

CensoredPath == "tmp_audio_censored.wav"

OutNames == << "v_censored.mp4", "v_censored_1.mp4", "v_censored_2.mp4",
               "v_censored_3.mp4", "v_censored_4.mp4" >>

\* k = 0: base_censored.mp4; k >= 1: base_censored_k.mp4
Candidate(k) == OutNames[k + 1]

OutputFiles == { Candidate(k) : k \in 0..(MaxCollide + 1) }

isfile(p) == p \in files

isdir(d) == d \in dirs

----------------------------------------------------------------------------
(* Events delivered to the caller's three callbacks *)

StatusEv(m) == [kind |-> "status", msg |-> m, value |-> 0, ok |-> FALSE, path |-> None]

\* update_progress: max(0.0, min(1.0, value / 100.0)), kept in hundredths
ProgressEv(v) == [kind |-> "progress", msg |-> "", value |-> Max(0, Min(100, v)), ok |-> FALSE, path |-> None]

CompleteEv(s, p) == [kind |-> "complete", msg |-> "", value |-> 0, ok |-> s, path |-> p]

MsgBadInput == "Error: Input video file not found or invalid."
MsgBadOutDir == "Error: Output directory is invalid."
MsgStep1 == "Step 1/5: Extracting audio..."
MsgErrExtract == "Error: Failed to extract audio."
MsgStep2 == "Step 2/5: Transcribing audio (this may take time)..."
MsgErrTranscribe == "Error: Failed to transcribe audio."
MsgStep3 == "Step 3/5: Classifying words..."
MsgIdentified == "Identified segments to censor."
MsgStep4 == "Step 4/5: Generating censored audio..."
MsgErrTempPath == "Error: Could not create path for censored audio."
MsgErrCensor == "Error: Failed to censor audio."
MsgStep5 == "Step 5/5: Reassembling video (this may also take time)..."
MsgErrReassemble == "Error: Failed to reassemble video."
MsgStopReassembly == "Stop requested during video reassembly."
MsgComplete == "Processing complete!"
MsgUnexpected == "Error: An unexpected error occurred. Check logs."
MsgStopped == "Processing stopped."
MsgStoppedByUser == "Processing stopped by user."
MsgStopRequested == "Stop requested. Attempting to halt after current step..."
MsgSttStarted == "Transcription started..."
MsgSttParsing == "Parsing transcription results..."
MsgSttError == "Error: Unexpected transcription error."

----------------------------------------------------------------------------
(* Word timestamps returned by the transcriber *)

Item(w, s, e) == [word |-> w, start |-> Some(s), end |-> Some(e)]

WordItems == { Item("ok", 0, 1), Item("bad", 1, 2), Item("bad", 2, 2) }

RECURSIVE ListsUpTo(_)
ListsUpTo(n) ==
    IF n = 0 THEN { <<>> }
    ELSE LET shorter == ListsUpTo(n - 1)
         IN  shorter \cup { Append(l, it) : l \in { x \in shorter : Len(x) = n - 1 }, it \in WordItems }

LongList == [ k \in 1..LongWords |-> Item(IF k = 2 THEN "bad" ELSE "ok", k, k + 1) ]

WordLists == ListsUpTo(MaxWords) \cup { LongList }

\* The words the configured classifier flags
Abusive == { "bad" }

classify_word(word_text) == word_text # "" /\ word_text \in Abusive

----------------------------------------------------------------------------
(* Helpers of the controller *)

Statuses(msgs) == [ k \in 1..Len(msgs) |-> StatusEv(msgs[k]) ]

\* (variant) the worker never sees the flag
is_set_never == FALSE

\* self._stop_requested.is_set(), as read by the worker
is_set == stop_requested

\* (variant) only the flag is looked at, the result never
check_stop_only(result_none, result_falsy, error_message, check_none) ==
    IF is_set
    THEN [stop |-> TRUE, msgs |-> << MsgStoppedByUser >>]
    ELSE [stop |-> FALSE, msgs |-> << >>]

\* (variant) an error result ends the run without a status
check_error_unreported(result_none, result_falsy, error_message, check_none) ==
    IF is_set
    THEN [stop |-> TRUE, msgs |-> << MsgStoppedByUser >>]
    ELSE IF (check_none /\ result_none) \/ (~check_none /\ result_falsy)
         THEN [stop |-> TRUE, msgs |-> << >>]
         ELSE [stop |-> FALSE, msgs |-> << >>]

\* (variant) check_none is ignored: every falsy result is an error
check_falsy_always(result_none, result_falsy, error_message, check_none) ==
    IF is_set
    THEN [stop |-> TRUE, msgs |-> << MsgStoppedByUser >>]
    ELSE IF result_falsy
         THEN [stop |-> TRUE, msgs |-> << error_message >>]
         ELSE [stop |-> FALSE, msgs |-> << >>]

\* (variant) the result first, then the flag
check_error_first(result_none, result_falsy, error_message, check_none) ==
    IF (check_none /\ result_none) \/ (~check_none /\ result_falsy)
    THEN [stop |-> TRUE, msgs |-> << error_message >>]
    ELSE IF is_set
         THEN [stop |-> TRUE, msgs |-> << MsgStoppedByUser >>]
         ELSE [stop |-> FALSE, msgs |-> << >>]

\* (variant) a check that reports the stop and the failure it sees
check_reporting_both(result_none, result_falsy, error_message, check_none) ==
    LET failed == (check_none /\ result_none) \/ (~check_none /\ result_falsy)
    IN  [stop |-> is_set \/ failed,
         msgs |-> (IF is_set THEN << MsgStoppedByUser >> ELSE << >>)
                  \o (IF failed THEN << error_message >> ELSE << >>)]

\* _check_stop_or_error: the flag first, then the result
check_stop_or_error(result_none, result_falsy, error_message, check_none) ==
    IF is_set
    THEN [stop |-> TRUE, msgs |-> << MsgStoppedByUser >>]
    ELSE IF (check_none /\ result_none) \/ (~check_none /\ result_falsy)
         THEN [stop |-> TRUE, msgs |-> << error_message >>]
         ELSE [stop |-> FALSE, msgs |-> << >>]

\* (variant) a return that leaves run() at once, as without try/finally
ReturnLeavesRun == "done"

\* a return inside the try block runs the finally block
AfterReturn == "cleanup"

\* (variant) the branch on reassembly_ok is missing
ReassemblyBranchNoFailure(ok, stopped) ==
    IF stopped THEN [goto |-> AfterReturn, msgs |-> << MsgStopReassembly >>]
    ELSE [goto |-> "finish", msgs |-> << >>]

\* (variant) the test of reassembly_ok is inverted
ReassemblyBranchInverted(ok, stopped) ==
    IF ok THEN [goto |-> "cleanup", msgs |-> << MsgErrReassemble >>]
    ELSE IF stopped THEN [goto |-> AfterReturn, msgs |-> << MsgStopReassembly >>]
    ELSE [goto |-> "finish", msgs |-> << >>]

\* (variant) the finally block reports the outcome without looking at the flag
FinalResultNoOverride(stopped, s, p) ==
    [success |-> s, path |-> p, msgs |-> << >>]

\* the if / elif / else on the result of reassemble_video: a failed
\* reassembly falls through to the finally block, a stop returns, and only
\* the else branch goes on to mark success
ReassemblyBranch(ok, stopped) ==
    IF ~ok THEN [goto |-> "cleanup", msgs |-> << MsgErrReassemble >>]
    ELSE IF stopped THEN [goto |-> AfterReturn, msgs |-> << MsgStopReassembly >>]
    ELSE [goto |-> "finish", msgs |-> << >>]

\* finally: a stop seen here overrides the outcome
FinalResult(stopped, s, p) ==
    IF stopped
    THEN [success |-> FALSE, path |-> None, msgs |-> << MsgStopped >>]
    ELSE [success |-> s, path |-> p, msgs |-> << >>]

\* (variant) the stage's share of the progress without its base of 50
LoopProgressNoBase(i, num_words) ==
    IF num_words > 0 THEN (20 * (i + 1)) \div num_words ELSE 70

\* progress inside the classification loop, for 0-based index i
LoopProgress(i, num_words) ==
    IF num_words > 0 THEN 50 + ((20 * (i + 1)) \div num_words) ELSE 70

ReportsInLoop(i, num_words) == (i % 50 = 0) \/ (i = num_words - 1)

\* (variant) the first candidate is taken without the loop
FirstCandidate(k) == k

\* the while loop over base_censored.mp4, base_censored_1.mp4, ...
RECURSIVE FirstFree(_)
FirstFree(k) == IF isfile(Candidate(k)) THEN FirstFree(k + 1) ELSE k

\* (variant) nothing is unlinked
cleanup_unlinks_nothing(paths, failing) == files

\* (variant) the whole temporary directory is removed as well
cleanup_whole_temp_dir(paths, failing) ==
    files \ ({ p \in paths : ~Falsy(p) /\ isfile(p) /\ p \notin failing }
             \cup { ExtractedPath, CensoredPath, OtherTemp })

\* (variant) an unlink that fails raises out of cleanup_temp_files and out of
\* the finally block
cleanup_escalating(failing) == IF failing # { } THEN "done" ELSE "fin_check"

\* cleanup_temp_files catches PermissionError and OSError of each unlink and
\* returns: the finally block goes on to its check of the flag
after_cleanup(failing) == "fin_check"

\* cleanup_temp_files(*args): unlink each argument that names a regular
\* file; `failing` are the paths whose unlink raises PermissionError/OSError
cleanup_temp_files(paths, failing) ==
    files \ { p \in paths : ~Falsy(p) /\ isfile(p) /\ p \notin failing }

----------------------------------------------------------------------------
(* The censoring step (src/audio_processor.py, src/utils.py).  A time in   *)
(* seconds is kept as an integer number of ticks, TicksPerMs ticks to the  *)
(* millisecond, so that the truncation of int(seconds * 1000) is visible.  *)

\* (variant) the conversion without its scaling
seconds_to_milliseconds_unscaled(seconds) == Max(0, seconds)

\* seconds_to_milliseconds: max(0, int(float(seconds) * 1000)); int()
\* truncates towards zero and \div towards minus infinity, which differ
\* only below zero, where max(0, ...) gives 0 for both
seconds_to_milliseconds(seconds) == Max(0, seconds \div TicksPerMs)

\* list.sort(key=lambda x: x[0]) is stable: seg goes behind every element
\* of the sorted list whose start is <= its own
RECURSIVE InsertByStart(_, _)
InsertByStart(sorted, seg) ==
    IF sorted = << >> THEN << seg >>
    ELSE IF Head(sorted)[1] <= seg[1]
         THEN << Head(sorted) >> \o InsertByStart(Tail(sorted), seg)
         ELSE << seg >> \o sorted

RECURSIVE sort_by_start(_)
sort_by_start(segs) ==
    IF segs = << >> THEN << >>
    ELSE InsertByStart(sort_by_start(SubSeq(segs, 1, Len(segs) - 1)), segs[Len(segs)])

\* (variant) the clamping without the audio duration
clamp_without_duration(start_sec, end_sec, duration) ==
    LET start_ms == Max(0, seconds_to_milliseconds(start_sec))
    IN  << start_ms, Max(start_ms, seconds_to_milliseconds(end_sec)) >>

\* the sanity checks and clamping of one segment, statement by statement
clamp(start_sec, end_sec, duration) ==
    LET start_ms0 == Max(0, seconds_to_milliseconds(start_sec))
        end_ms0 == Max(start_ms0, seconds_to_milliseconds(end_sec))
        end_ms == Min(duration, end_ms0)
        start_ms == Min(duration, start_ms0)
    IN  << start_ms, end_ms >>

\* (variant) the zero-length segments are overlaid like the others
RECURSIVE overlays_without_skip(_, _)
overlays_without_skip(sorted, duration) ==
    IF sorted = << >> THEN << >>
    ELSE << clamp(Head(sorted)[1], Head(sorted)[2], duration) >>
            \o overlays_without_skip(Tail(sorted), duration)

\* the loop over the sorted segments: a segment of duration <= 0 is skipped,
\* every other one is overlaid at start_ms (generate_beep falls back to
\* silence and never returns None)
RECURSIVE overlays(_, _)
overlays(sorted, duration) ==
    IF sorted = << >> THEN << >>
    ELSE LET c == clamp(Head(sorted)[1], Head(sorted)[2], duration)
             rest == overlays(Tail(sorted), duration)
         IN  IF c[2] - c[1] <= 0 THEN rest ELSE << c >> \o rest

\* (variant) an empty list of segments is beeped over the whole audio
censor_audio_beeps_all(segments, duration) ==
    IF segments = << >>
    THEN [via |-> "export", applied |-> << << 0, duration >> >>]
    ELSE [via |-> "export", applied |-> overlays(sort_by_start(segments), duration)]

\* censor_audio without its failures: how output_path is written and which
\* intervals are overlaid.  No segments: copyfile.  Otherwise export if
\* applied_count > 0, else copyfile.
censor_audio(segments, duration) ==
    IF segments = << >>
    THEN [via |-> "copyfile", applied |-> << >>]
    ELSE LET a == overlays(sort_by_start(segments), duration)
         IN  IF Len(a) > 0
             THEN [via |-> "export", applied |-> a]
             ELSE [via |-> "copyfile", applied |-> << >>]

\* A sound is [kind, len, frame_rate]: a tone or silence of len ms; kind
\* "None" is None.  An audio buffer is [len, frame_rate, source_in, tones]:
\* len ms of audio, the intervals over which the original signal is in it and the
\* set of intervals << from, to >> (in ms) over which a tone is mixed into it.

\* frames per second of the extracted audio (write_audiofile(fps=16000)), of
\* the tone generator (pydub's Sine, by default) and of AudioSegment.silent
\* (by default)
SourceFrameRate == 16000

SineFrameRate == 44100

SilentFrameRate == 11025

\* AudioSegment.silent(duration=d)
silent(d) == [kind |-> "silence", len |-> d, frame_rate |-> SilentFrameRate]

\* Sine(frequency_hz).to_audio_segment(duration=d, volume=-12), faded in and out
sine(d) == [kind |-> "tone", len |-> d, frame_rate |-> SineFrameRate]

\* (variant) no fallback: None when the tone cannot be synthesised
generate_beep_without_fallback(duration_ms, synth_fails) ==
    LET d == Max(0, duration_ms)
    IN  IF d <= 0 THEN silent(0)
        ELSE IF synth_fails THEN [kind |-> "None", len |-> 0, frame_rate |-> 0]
        ELSE sine(d)

\* generate_beep: silence of length 0 for a duration <= 0, the tone, or
\* silence of the same duration when the synthesis raises
generate_beep(duration_ms, synth_fails) ==
    LET d == Max(0, duration_ms)
    IN  IF d <= 0 THEN silent(0)
        ELSE IF synth_fails THEN silent(d)
        ELSE sine(d)

\* AudioSegment.from_wav(original_audio_path): duration ms of the original
source_audio(duration) ==
    [len |-> duration,
     frame_rate |-> SourceFrameRate,
     source_in |-> IF duration > 0 THEN { << 0, duration >> } ELSE { },
     tones |-> { }]

\* (variant) the sound is spliced in at position instead of mixed
overlay_splicing(base, sound, position) ==
    [len |-> base.len + sound.len,
     frame_rate |-> Max(base.frame_rate, sound.frame_rate),
     source_in |-> base.source_in,
     tones |-> IF sound.kind = "tone"
               THEN base.tones \cup { << position, position + sound.len >> }
               ELSE base.tones]

\* final_audio.overlay(beep_sound, position=start_ms): both are brought to
\* the higher of their frame rates; the result is self[:position], then
\* self[position:] added sample by sample to the sound cut to what is left
\* of self, then the rest of self.  The signal of self stays in the sum;
\* adding silence leaves it as it was.
overlay(base, sound, position) ==
    LET head == Min(position, base.len)
        under == base.len - head
        n == Min(sound.len, under)
    IN  [len |-> head + n + (under - n),
         frame_rate |-> Max(base.frame_rate, sound.frame_rate),
         source_in |-> base.source_in,
         tones |-> IF sound.kind = "tone" /\ n > 0
                   THEN base.tones \cup { << head, head + n >> }
                   ELSE base.tones]

\* the sound generate_beep returns for each overlaid interval; failing are
\* the positions in the list whose tone synthesis raises
beeps_for(intervals, failing) ==
    [ k \in 1..Len(intervals) |->
        generate_beep(intervals[k][2] - intervals[k][1], k \in failing) ]

\* the loop from generate_beep on: a sound that is None is skipped, every
\* other one is overlaid at start_ms
RECURSIVE mix(_, _, _)
mix(audio, intervals, sounds) ==
    IF intervals = << >> THEN audio
    ELSE mix(IF Head(sounds).kind = "None" THEN audio
             ELSE overlay(audio, Head(sounds), Head(intervals)[1]),
             Tail(intervals), Tail(sounds))

\* what censor_audio writes to output_path under the plan censor_audio(...)
\* of its segments: the original (copyfile), or the original with the
\* sounds overlaid (export)
written_audio(plan, duration, failing) ==
    IF plan.via = "copyfile" THEN source_audio(duration)
    ELSE mix(source_audio(duration), plan.applied, beeps_for(plan.applied, failing))

\* len(audio) of the audio files the model loads
Durations == 0..MaxDur

\* len(audio) of the extracted audio of a run: the audio ends after the
\* last word the transcriber found in it
AudioMs(words) ==
    LET ends == { words[k].end[1] : k \in 1..Len(words) }
    IN  IF ends = { } THEN 0
        ELSE seconds_to_milliseconds(CHOOSE m \in ends : \A e \in ends : e <= m) + 1

----------------------------------------------------------------------------
(* classify_word under a configuration (src/classification_processor.py).  *)
(* A configuration value is a string: Missing when config.json has no such *)
(* key, None for null.  The result of a call is "True", "False" or the     *)
(* name of the exception that leaves it.                                   *)

Missing == "<missing>"

NotAString == "<not a str>"

\* CONFIG.get(key, default)
config_get(cfg, key, default) == IF cfg[key] = Missing THEN default ELSE cfg[key]

\* float(v), in hundredths: of a number, of a string holding a number, of a
\* string holding none (ValueError), of None (TypeError)
float(v) ==
    CASE v = "0.5" -> [raises |-> "", value |-> 50]
      [] v = "0.75" -> [raises |-> "", value |-> 75]
      [] v = "'0.9'" -> [raises |-> "", value |-> 90]
      [] v = "'high'" -> [raises |-> "ValueError", value |-> 0]
      [] OTHER -> [raises |-> "TypeError", value |-> 0]

\* word_text.strip(".,!?;:'\"()[]{}<>-").strip().lower()
processed(word_text) ==
    CASE word_text = "Bad!" -> "bad"
      [] word_text = "..." -> ""
      [] OTHER -> word_text

\* load_classification_model in "model" mode with nothing cached: None
\* without a model name or when loading raises, else the pipeline
load_classification_model(cfg, env) ==
    IF Falsy(config_get(cfg, "classification_model_name", None)) THEN None
    ELSE IF env.model_loads THEN "pipeline" ELSE None

\* load_keyword_list in "keyword" mode with nothing cached: the empty set
\* when the path is None (isfile raises, caught), the file is missing or
\* cannot be read, else the keywords of the file
load_keyword_list(cfg, env) ==
    LET filepath == config_get(cfg, "keyword_file", "keywords.txt")
    IN  IF filepath = None THEN { }
        ELSE IF env.keyword_file \in { "absent", "unreadable", "empty" } THEN { }
        ELSE { "bad" }

\* the try block around pipeline(processed_word, ...): what the model
\* returns is env.inference
model_says_abusive(env, abuse_label, threshold) ==
    CASE env.inference = "abusive_95" -> abuse_label = "abusive" /\ 95 >= threshold
      [] env.inference = "abusive_60" -> abuse_label = "abusive" /\ 60 >= threshold
      [] env.inference = "clean_95" -> abuse_label = "clean" /\ 95 >= threshold
      [] OTHER -> FALSE   \* raises, [], no 'score' key, score not a number

classify_word_under(cfg, env, word_text) ==
    IF word_text = NotAString \/ word_text = "" THEN "False"
    ELSE IF processed(word_text) = "" THEN "False"
    ELSE LET mode == config_get(cfg, "classification_mode", "keyword")
         IN  IF mode = "model"
             THEN IF Falsy(load_classification_model(cfg, env)) THEN "False"
                  ELSE LET abuse_label == config_get(cfg, "abuse_label", None)
                           f == float(config_get(cfg, "abuse_confidence_threshold", "0.75"))
                           threshold == IF f.raises = "ValueError" THEN 75 ELSE f.value
                       IN  IF f.raises \notin { "", "ValueError" } THEN f.raises
                           ELSE IF Falsy(abuse_label) THEN "False"
                           ELSE IF model_says_abusive(env, abuse_label, threshold)
                                THEN "True" ELSE "False"
             ELSE IF mode = "keyword"
                  THEN IF processed(word_text) \in load_keyword_list(cfg, env)
                       THEN "True" ELSE "False"
                  ELSE "False"

classifierVars == << CONFIG, classifier_env, classified >>

\* the configuration and environment of the runs of the controller: keyword
\* mode with a keyword file that lists the word "bad"
ClassifierIdle ==
    /\ CONFIG = [classification_mode |-> "keyword", classification_model_name |-> Missing,
                 abuse_label |-> Missing, abuse_confidence_threshold |-> Missing,
                 keyword_file |-> "kw.txt"]
    /\ classifier_env = [model_loads |-> FALSE, inference |-> "raises",
                         keyword_file |-> "listed"]
    /\ classified = << >>

----------------------------------------------------------------------------
(* The application window (src/gui.py) as far as it starts and ends runs *)

guiVars == << action_button, processing_thread, workers, after_queue, window,
             selected_input_file, selected_output_dir >>

\* the window as a run of the controller sees it: the run was started from it
GuiIdle ==
    /\ action_button = "disabled"
    /\ processing_thread = 1
    /\ workers = << "running" >>
    /\ after_queue = << >>
    /\ window = "open"
    /\ selected_input_file = None
    /\ selected_output_dir = None

----------------------------------------------------------------------------
(* transcribe_audio (src/stt_processor.py): the word timestamps taken from *)
(* the result of model.transcribe.  A timestamp of a word_info is << n >>, *)
(* or << >> when float() raises on it.                                     *)

MaxRaw == 2        \* word_info entries in the result of model.transcribe

\* word_info['word'].strip()
strip(w) == CASE w = " " -> "" [] w = " bad" -> "bad" [] OTHER -> w

RawWords == { " ", " bad", "ok" }

Stamps == { << >>, << 0 >>, << 1 >>, << 2 >> }

WordInfos == [word : RawWords, start : Stamps, end : Stamps]

WordInfoListsUpTo(n) == UNION { [1..k -> WordInfos] : k \in 0..n }

\* (variant) the order of the two timestamps is not looked at
keeps_word_unordered(word_info) ==
    /\ strip(word_info.word) # ""
    /\ word_info.start # << >>
    /\ word_info.end # << >>

\* the checks on one word_info: a word that is not empty once stripped,
\* two timestamps float() converts, and end_f >= start_f
keeps_word(word_info) ==
    /\ strip(word_info.word) # ""
    /\ word_info.start # << >>
    /\ word_info.end # << >>
    /\ word_info.end[1] >= word_info.start[1]

\* the loop over the word_info entries: each one kept is appended
RECURSIVE words_of(_)
words_of(infos) ==
    IF infos = << >> THEN << >>
    ELSE (IF keeps_word(Head(infos))
          THEN << Item(strip(Head(infos).word), Head(infos).start[1], Head(infos).end[1]) >>
          ELSE << >>) \o words_of(Tail(infos))

sttVars == << whisper_result >>

\* no transcription is looked at
SttIdle == whisper_result = [text |-> "", words |-> << >>]

----------------------------------------------------------------------------
(* Initial state: the object after __init__, with the caller's arguments   *)
(* and the file system as the environment left it                          *)

\* the output files a run may find in the output directory: the first n
\* candidates (left by n earlier runs), or the last candidate alone
ExistingOutputs ==
    { { Candidate(k) : k \in 0..(n - 1) } : n \in 0..(MaxCollide + 1) }
        \cup { { Candidate(MaxCollide) } }

Init ==
    /\ pc = "NotStarted"
    /\ stop_requested = FALSE
    /\ stopPc = "idle"
    /\ stopCalls = 0
    /\ video_path \in { "", VideoFile }
    /\ output_dir \in { "", OutDir }
    /\ \E v \in SUBSET { VideoFile }, o \in ExistingOutputs :
          files = v \cup o \cup { OtherTemp }
    /\ dirs \in SUBSET { OutDir }
    /\ temp_audio_original = None
    /\ temp_audio_censored = None
    /\ word_timestamps = << >>
    /\ idx = 0
    /\ segments_to_censor = << >>
    /\ censored_path = None
    /\ final_output_path = None
    /\ reassembly_ok = FALSE
    /\ success = FALSE
    /\ events = << >>
    /\ calls = << >>
    /\ cleanups = 0
    /\ delFailed = FALSE
    /\ flagSetPc = ""
    /\ callsAtFlagSet = 0
    /\ created = { }
    /\ original_duration_ms = 0
    /\ applied = << >>
    /\ censor_via = ""
    /\ synth_failed = { }
    /\ beep_sounds = << >>
    /\ final_audio = source_audio(0)
    /\ escaped_from = ""
    /\ ClassifierIdle
    /\ GuiIdle
    /\ SttIdle

inputVars == << video_path, output_dir, dirs >>

planVars == << original_duration_ms, applied, censor_via, synth_failed,
              beep_sounds, final_audio >>

stopVars == << stop_requested, stopPc, stopCalls, flagSetPc, callsAtFlagSet >>

fsVars == << files, created, delFailed >>

runLocals == << word_timestamps, idx, segments_to_censor, censored_path,
                final_output_path, reassembly_ok, success >>

----------------------------------------------------------------------------
(* The caller's thread: stop() *)

\* the caller enters stop() (while the run has not finished)
StopCall ==
    /\ stopPc = "idle"
    /\ stopCalls < MaxStops
    /\ pc # "done"
    /\ stopPc' = "status"
    /\ stopCalls' = stopCalls + 1
    /\ UNCHANGED << pc, stop_requested, flagSetPc, callsAtFlagSet, inputVars, sttVars, classifierVars, guiVars, planVars,
                    escaped_from, fsVars, runLocals,
                    temp_audio_original, temp_audio_censored, events, calls,
                    cleanups >>

\* self.update_status("Stop requested. ...")
StopStatus ==
    /\ stopPc = "status"
    /\ events' = Append(events, StatusEv(MsgStopRequested))
    /\ stopPc' = "set"
    /\ UNCHANGED << pc, stop_requested, stopCalls, flagSetPc, callsAtFlagSet, inputVars, sttVars, classifierVars, guiVars,
                    planVars, escaped_from, fsVars,
                    runLocals, temp_audio_original, temp_audio_censored, calls,
                    cleanups >>

\* (variant) setting a flag that is set clears it
Event_toggle(flag) == ~flag

\* threading.Event.set(): the flag is true afterwards, whatever it was
Event_set(flag) == TRUE

\* self._stop_requested.set()
StopSet ==
    /\ stopPc = "set"
    /\ stop_requested' = Event_set(stop_requested)
    /\ flagSetPc' = IF stop_requested THEN flagSetPc ELSE pc
    /\ callsAtFlagSet' = IF stop_requested THEN callsAtFlagSet ELSE Len(calls)
    /\ stopPc' = "idle"
    /\ UNCHANGED << pc, stopCalls, inputVars, sttVars, classifierVars, guiVars, planVars, escaped_from, fsVars, runLocals,
                    temp_audio_original, temp_audio_censored, events, calls,
                    cleanups >>

----------------------------------------------------------------------------
(* The worker thread: run() *)

\* Thread.start(): run() begins
Start ==
    /\ pc = "NotStarted"
    /\ pc' = "validate"
    /\ UNCHANGED << stopVars, inputVars, sttVars, classifierVars, guiVars, planVars, escaped_from, fsVars, runLocals, temp_audio_original,
                    temp_audio_censored, events, calls, cleanups >>

\* (variant) the output directory is not looked at
output_dir_unchecked == FALSE

\* not self.video_path or not os.path.isfile(self.video_path)
video_path_invalid == Falsy(video_path) \/ ~isfile(video_path)

\* not self.output_dir or not os.path.isdir(self.output_dir)
output_dir_invalid == Falsy(output_dir) \/ ~isdir(output_dir)

\* input validation; an early return goes to the finally block
Validate ==
    /\ pc = "validate"
    /\ IF video_path_invalid
       THEN /\ events' = Append(events, StatusEv(MsgBadInput))
            /\ pc' = AfterReturn
       ELSE IF output_dir_invalid
            THEN /\ events' = Append(events, StatusEv(MsgBadOutDir))
                 /\ pc' = AfterReturn
            ELSE /\ events' = events
                 /\ pc' = "extract"
    /\ UNCHANGED << stopVars, inputVars, sttVars, classifierVars, guiVars, planVars, escaped_from, fsVars, runLocals, temp_audio_original,
                    temp_audio_censored, calls, cleanups >>

\* Step 1: status, progress 5, extract_audio(video_path).
\*   ok            the WAV file is written and its path returned
\*   none          None without a file (no temp path, no audio track, the
\*                 written file is missing, or an error whose partial file
\*                 was removed)
\*   none_leftover None after an error whose partial file could not be removed
\*   raise         an exception leaves the call
Extract ==
    /\ pc = "extract"
    /\ events' = events \o << StatusEv(MsgStep1), ProgressEv(5) >>
    /\ calls' = Append(calls, "extract_audio")
    /\ \E o \in { "ok", "none", "none_leftover", "raise" } :
          /\ temp_audio_original' = IF o = "ok" THEN ExtractedPath ELSE temp_audio_original
          /\ files' = IF o \in { "ok", "none_leftover" } THEN files \cup { ExtractedPath } ELSE files
          /\ created' = IF o \in { "ok", "none_leftover" } THEN created \cup { ExtractedPath } ELSE created
          /\ delFailed' = (delFailed \/ o = "none_leftover")
          /\ pc' = IF o = "raise" THEN "except" ELSE "chk_extract"
    /\ UNCHANGED << stopVars, inputVars, sttVars, classifierVars, guiVars, planVars, escaped_from, runLocals, temp_audio_censored, cleanups >>

ChkExtract ==
    /\ pc = "chk_extract"
    /\ LET r == check_stop_or_error(temp_audio_original = None,
                                    Falsy(temp_audio_original), MsgErrExtract, FALSE)
       IN  /\ events' = events \o Statuses(r.msgs)
           /\ pc' = IF r.stop THEN AfterReturn ELSE "transcribe"
    /\ UNCHANGED << stopVars, inputVars, sttVars, classifierVars, guiVars, planVars, escaped_from, fsVars, runLocals, temp_audio_original,
                    temp_audio_censored, calls, cleanups >>

\* Step 2: status, progress 20, transcribe_audio(path, update_status).
\* The transcriber reports through the status callback it is given.
Transcribe ==
    /\ pc = "transcribe"
    /\ calls' = Append(calls, "transcribe_audio")
    /\ \/ \E wl \in WordLists :
            /\ word_timestamps' = Some(wl)
            /\ events' = events \o << StatusEv(MsgStep2), ProgressEv(20),
                                      StatusEv(MsgSttStarted), StatusEv(MsgSttParsing) >>
            /\ pc' = "chk_transcribe"
       \/ /\ word_timestamps' = << >>
          /\ events' = events \o << StatusEv(MsgStep2), ProgressEv(20),
                                    StatusEv(MsgSttStarted), StatusEv(MsgSttError) >>
          /\ pc' = "chk_transcribe"
       \/ /\ word_timestamps' = word_timestamps
          /\ events' = events \o << StatusEv(MsgStep2), ProgressEv(20) >>
          /\ pc' = "except"
    /\ UNCHANGED << stopVars, inputVars, sttVars, classifierVars, guiVars, planVars, escaped_from, fsVars, idx, segments_to_censor,
                    censored_path, final_output_path, reassembly_ok, success,
                    temp_audio_original, temp_audio_censored, cleanups >>

ChkTranscribe ==
    /\ pc = "chk_transcribe"
    /\ LET r == check_stop_or_error(IsNone(word_timestamps),
                                    IsNone(word_timestamps) \/ word_timestamps = Some(<< >>),
                                    MsgErrTranscribe, TRUE)
       IN  /\ events' = events \o Statuses(r.msgs)
           /\ pc' = IF r.stop THEN AfterReturn ELSE "classify_init"
    /\ UNCHANGED << stopVars, inputVars, sttVars, classifierVars, guiVars, planVars, escaped_from, fsVars, runLocals, temp_audio_original,
                    temp_audio_censored, calls, cleanups >>

\* len(word_timestamps) if word_timestamps else 0
NumWords == IF IsNone(word_timestamps) THEN 0 ELSE Len(word_timestamps[1])

\* Step 3 begins: status, progress 50, segments_to_censor = []
ClassifyInit ==
    /\ pc = "classify_init"
    /\ events' = events \o << StatusEv(MsgStep3), ProgressEv(50) >>
    /\ segments_to_censor' = << >>
    /\ idx' = 0
    /\ pc' = IF NumWords = 0 THEN "post_classify" ELSE "loop_check"
    /\ UNCHANGED << stopVars, inputVars, sttVars, classifierVars, guiVars, planVars, escaped_from, fsVars, word_timestamps, censored_path,
                    final_output_path, reassembly_ok, success,
                    temp_audio_original, temp_audio_censored, calls, cleanups >>

\* (variant) the flag is read every 50 words only
ChecksFlagEvery50(i) == i % 50 = 0

\* the read of the flag is the first statement of every iteration
ChecksFlagAt(i) == TRUE

\* top of the loop body: if self._stop_requested.is_set(): return
LoopCheck ==
    /\ pc = "loop_check"
    /\ pc' = IF ChecksFlagAt(idx) /\ is_set THEN AfterReturn ELSE "loop_body"
    /\ UNCHANGED << stopVars, inputVars, sttVars, classifierVars, guiVars, planVars, escaped_from, fsVars, runLocals, temp_audio_original,
                    temp_audio_censored, events, calls, cleanups >>

\* (variant) the word text is not looked at
has_times(item) == ~IsNone(item.start) /\ ~IsNone(item.end)

\* word and start_time is not None and end_time is not None
has_word_and_times(item) ==
    item.word # "" /\ ~IsNone(item.start) /\ ~IsNone(item.end)

\* rest of the loop body for word idx: classify, collect, report progress
LoopBody ==
    /\ pc = "loop_body"
    /\ LET item == word_timestamps[1][idx + 1]
           usable == has_word_and_times(item)
           report == IF ReportsInLoop(idx, NumWords)
                     THEN << ProgressEv(LoopProgress(idx, NumWords)) >>
                     ELSE << >>
       IN  /\ calls' = IF usable THEN Append(calls, "classify_word") ELSE calls
           /\ \/ /\ segments_to_censor' =
                       IF usable /\ classify_word(item.word)
                       THEN Append(segments_to_censor, << item.start[1], item.end[1] >>)
                       ELSE segments_to_censor
                 /\ events' = events \o report
                 /\ idx' = idx + 1
                 /\ pc' = IF idx + 1 < NumWords THEN "loop_check" ELSE "post_classify"
              \/ /\ usable          \* classify_word raises
                 /\ UNCHANGED << segments_to_censor, events, idx >>
                 /\ pc' = "except"
    /\ UNCHANGED << stopVars, inputVars, sttVars, classifierVars, guiVars, planVars, escaped_from, fsVars, word_timestamps, censored_path,
                    final_output_path, reassembly_ok, success,
                    temp_audio_original, temp_audio_censored, cleanups >>

\* after the loop: status "Identified ...", progress 70
PostClassify ==
    /\ pc = "post_classify"
    /\ events' = events \o << StatusEv(MsgIdentified), ProgressEv(70) >>
    /\ pc' = "chk_classify"
    /\ UNCHANGED << stopVars, inputVars, sttVars, classifierVars, guiVars, planVars, escaped_from, fsVars, runLocals, temp_audio_original,
                    temp_audio_censored, calls, cleanups >>

\* if self._stop_requested.is_set(): return
ChkClassify ==
    /\ pc = "chk_classify"
    /\ pc' = IF is_set THEN AfterReturn ELSE "alloc"
    /\ UNCHANGED << stopVars, inputVars, sttVars, classifierVars, guiVars, planVars, escaped_from, fsVars, runLocals, temp_audio_original,
                    temp_audio_censored, events, calls, cleanups >>

\* Step 4 begins: status, get_temp_filepath (a path, or None on error)
Alloc ==
    /\ pc = "alloc"
    /\ events' = Append(events, StatusEv(MsgStep4))
    /\ temp_audio_censored' \in { CensoredPath, None }
    /\ pc' = "chk_alloc"
    /\ UNCHANGED << stopVars, inputVars, sttVars, classifierVars, guiVars, planVars, escaped_from, fsVars, runLocals, temp_audio_original,
                    calls, cleanups >>

ChkAlloc ==
    /\ pc = "chk_alloc"
    /\ LET r == check_stop_or_error(temp_audio_censored = None,
                                    Falsy(temp_audio_censored), MsgErrTempPath, FALSE)
       IN  /\ events' = events \o Statuses(r.msgs)
           /\ pc' = IF r.stop THEN AfterReturn ELSE "censor"
    /\ UNCHANGED << stopVars, inputVars, sttVars, classifierVars, guiVars, planVars, escaped_from, fsVars, runLocals, temp_audio_original,
                    temp_audio_censored, calls, cleanups >>

\* censor_audio(original, segments, output_path):
\*   ok           the output file is written and its path returned
\*   none         None and no file at output_path
\*   none_partial None after a copy/export that left a file at output_path
\*   raise        an exception leaves the call
Censor ==
    /\ pc = "censor"
    /\ calls' = Append(calls, "censor_audio")
    /\ \E o \in { "ok", "none", "none_partial", "raise" } :
          /\ o = "ok" => isfile(temp_audio_original)
          /\ censored_path' = IF o = "ok" THEN temp_audio_censored ELSE censored_path
          /\ \E d \in { AudioMs(word_timestamps[1]) } :
             \E r \in { censor_audio(segments_to_censor, d) } :
                \* the original is loaded only when there are segments
                /\ original_duration_ms' =
                      IF o = "ok" /\ segments_to_censor # << >> THEN d ELSE original_duration_ms
                /\ applied' = IF o = "ok" THEN r.applied ELSE applied
                /\ censor_via' = IF o = "ok" THEN r.via ELSE censor_via
                /\ \E failing \in SUBSET (1..Len(r.applied)) :
                      /\ o # "ok" => failing = { }
                      /\ synth_failed' = IF o = "ok" THEN failing ELSE synth_failed
                      /\ beep_sounds' =
                            IF o = "ok"
                            THEN SelectSeq(beeps_for(r.applied, failing), LAMBDA b : b.kind # "None")
                            ELSE beep_sounds
                      /\ final_audio' =
                            IF o = "ok" THEN written_audio(r, d, failing)
                            ELSE final_audio
          /\ files' = IF o \in { "ok", "none_partial" }
                      THEN files \cup { temp_audio_censored } ELSE files
          /\ created' = IF o \in { "ok", "none_partial" }
                        THEN created \cup { temp_audio_censored } ELSE created
          /\ pc' = IF o = "raise" THEN "except" ELSE "chk_censor"
          \* segments_to_censor.sort(...) sorts the caller's list in place
          /\ segments_to_censor' =
                IF o = "ok" THEN sort_by_start(segments_to_censor) ELSE segments_to_censor
    /\ UNCHANGED << stopVars, inputVars, sttVars, classifierVars, guiVars, escaped_from, delFailed, word_timestamps, idx,
                    final_output_path, reassembly_ok, success,
                    temp_audio_original, temp_audio_censored, events, cleanups >>

ChkCensor ==
    /\ pc = "chk_censor"
    /\ LET r == check_stop_or_error(censored_path = None, Falsy(censored_path),
                                    MsgErrCensor, FALSE)
       IN  /\ events' = events \o Statuses(r.msgs)
           /\ pc' = IF r.stop THEN AfterReturn ELSE "pick_output"
    /\ UNCHANGED << stopVars, inputVars, sttVars, classifierVars, guiVars, planVars, escaped_from, fsVars, runLocals, temp_audio_original,
                    temp_audio_censored, calls, cleanups >>

\* progress 85, Step 5 status, and the choice of a free output name
PickOutput ==
    /\ pc = "pick_output"
    /\ events' = events \o << ProgressEv(85), StatusEv(MsgStep5) >>
    /\ final_output_path' = Candidate(FirstFree(0))
    /\ pc' = "reassemble"
    /\ UNCHANGED << stopVars, inputVars, sttVars, classifierVars, guiVars, planVars, escaped_from, fsVars, word_timestamps, idx,
                    segments_to_censor, censored_path, reassembly_ok, success,
                    temp_audio_original, temp_audio_censored, calls, cleanups >>

\* reassemble_video(video, censored audio, output):
\*   ok            the output file is written, True
\*   false         False and no output file (an input is missing, the written
\*                 file is not found, or an error whose partial output was
\*                 removed or never existed)
\*   false_partial False after an error whose partial output could not be removed
\*   raise         an exception leaves the call
Reassemble ==
    /\ pc = "reassemble"
    /\ calls' = Append(calls, "reassemble_video")
    /\ \E o \in { "ok", "false", "false_partial", "raise" } :
          /\ o \in { "ok", "false_partial" } =>
                (isfile(video_path) /\ isfile(temp_audio_censored))
          /\ reassembly_ok' = (o = "ok")
          /\ files' = IF o \in { "ok", "false_partial" }
                      THEN files \cup { final_output_path } ELSE files
          /\ created' = IF o \in { "ok", "false_partial" }
                        THEN created \cup { final_output_path } ELSE created
          /\ delFailed' = (delFailed \/ o = "false_partial")
          /\ pc' = IF o = "raise" THEN "except" ELSE "chk_reassemble"
    /\ UNCHANGED << stopVars, inputVars, sttVars, classifierVars, guiVars, planVars, escaped_from, word_timestamps, idx, segments_to_censor,
                    censored_path, final_output_path, success,
                    temp_audio_original, temp_audio_censored, events, cleanups >>

\* the if / elif / else after reassembly
ChkReassemble ==
    /\ pc = "chk_reassemble"
    /\ LET b == ReassemblyBranch(reassembly_ok, is_set)
       IN  /\ events' = events \o Statuses(b.msgs)
           /\ pc' = b.goto
    /\ UNCHANGED << stopVars, inputVars, sttVars, classifierVars, guiVars, planVars, escaped_from, fsVars, runLocals, temp_audio_original,
                    temp_audio_censored, calls, cleanups >>

\* the else branch: status, progress 100, success = True
Finish ==
    /\ pc = "finish"
    /\ events' = events \o << StatusEv(MsgComplete), ProgressEv(100) >>
    /\ success' = TRUE
    /\ pc' = "cleanup"
    /\ UNCHANGED << stopVars, inputVars, sttVars, classifierVars, guiVars, planVars, escaped_from, fsVars, word_timestamps, idx,
                    segments_to_censor, censored_path, final_output_path,
                    reassembly_ok, temp_audio_original, temp_audio_censored,
                    calls, cleanups >>

\* except Exception: status, success = False
Except ==
    /\ pc = "except"
    /\ events' = Append(events, StatusEv(MsgUnexpected))
    /\ success' = FALSE
    /\ pc' = "cleanup"
    /\ UNCHANGED << stopVars, inputVars, sttVars, classifierVars, guiVars, planVars, escaped_from, fsVars, word_timestamps, idx,
                    segments_to_censor, censored_path, final_output_path,
                    reassembly_ok, temp_audio_original, temp_audio_censored,
                    calls, cleanups >>

\* finally: cleanup_temp_files(temp_audio_original, temp_audio_censored)
Cleanup ==
    /\ pc = "cleanup"
    /\ LET paths == { temp_audio_original, temp_audio_censored }
       IN  \E failing \in SUBSET { p \in paths : ~Falsy(p) /\ isfile(p) } :
              /\ files' = cleanup_temp_files(paths, failing)
              /\ delFailed' = (delFailed \/ failing # { })
              /\ pc' = after_cleanup(failing)
    /\ cleanups' = cleanups + 1
    /\ UNCHANGED << stopVars, inputVars, sttVars, classifierVars, guiVars, planVars, escaped_from, created, runLocals, temp_audio_original,
                    temp_audio_censored, events, calls >>

\* finally: if self._stop_requested.is_set(): status, success = False, path = None
FinCheck ==
    /\ pc = "fin_check"
    /\ LET r == FinalResult(is_set, success, final_output_path)
       IN  /\ events' = events \o Statuses(r.msgs)
           /\ success' = r.success
           /\ final_output_path' = r.path
    /\ pc' = "complete"
    /\ UNCHANGED << stopVars, inputVars, sttVars, classifierVars, guiVars, planVars, escaped_from, fsVars, word_timestamps, idx,
                    segments_to_censor, censored_path, reassembly_ok,
                    temp_audio_original, temp_audio_censored, calls, cleanups >>

\* finally: self.completion_callback(success, final_output_path)
Complete ==
    /\ pc = "complete"
    /\ events' = Append(events, CompleteEv(success, final_output_path))
    /\ pc' = "done"
    /\ UNCHANGED << stopVars, inputVars, sttVars, classifierVars, guiVars, planVars, escaped_from, fsVars, runLocals, temp_audio_original,
                    temp_audio_censored, calls, cleanups >>

----------------------------------------------------------------------------

StopStep == StopCall \/ StopStatus \/ StopSet

WorkerStep ==
    \/ Start \/ Validate
    \/ Extract \/ ChkExtract
    \/ Transcribe \/ ChkTranscribe
    \/ ClassifyInit \/ LoopCheck \/ LoopBody \/ PostClassify \/ ChkClassify
    \/ Alloc \/ ChkAlloc \/ Censor \/ ChkCensor
    \/ PickOutput \/ Reassemble \/ ChkReassemble \/ Finish
    \/ Except \/ Cleanup \/ FinCheck \/ Complete

Next == StopStep \/ WorkerStep

Spec == Init /\ [][Next]_vars

----------------------------------------------------------------------------
(* stop() called more than once on the same run.  The output directory holds *)
(* no earlier output: the choice of the output name plays no part here.      *)

MaxStopCalls == 2  \* stop() calls per run when the caller repeats the call

StopsInit == Init /\ files \cap OutputFiles = { }

\* the caller enters stop() once more, after an earlier call has returned
StopAgain ==
    /\ stopPc = "idle"
    /\ stopCalls >= MaxStops
    /\ stopCalls < MaxStopCalls
    /\ pc # "done"
    /\ stopPc' = "status"
    /\ stopCalls' = stopCalls + 1
    /\ UNCHANGED << pc, stop_requested, flagSetPc, callsAtFlagSet, inputVars, sttVars, classifierVars, guiVars, planVars,
                    escaped_from, fsVars, runLocals,
                    temp_audio_original, temp_audio_censored, events, calls,
                    cleanups >>

NextStops == Next \/ StopAgain

SpecStops == StopsInit /\ [][NextStops]_vars

----------------------------------------------------------------------------
(* The classification stage on its own (step 3 of run() up to the call of  *)
(* censor_audio), over word lists whose items may lack a text or a         *)
(* timestamp.                                                              *)

MaxItems == 3      \* longest word list of the classification stage on its own

\* items as item.get('word', ''), item.get('start'), item.get('end') see them
ClassifyItems ==
    WordItems \cup { Item("", 0, 1),
                     [word |-> "bad", start |-> << >>, end |-> Some(1)],
                     [word |-> "bad", start |-> Some(1), end |-> << >>] }

RECURSIVE ItemListsUpTo(_)
ItemListsUpTo(n) ==
    IF n = 0 THEN { << >> }
    ELSE LET shorter == ItemListsUpTo(n - 1)
         IN  shorter \cup { Append(l, it) :
                              l \in { x \in shorter : Len(x) = n - 1 },
                              it \in ClassifyItems }

\* run() after a successful transcription, about to begin step 3
ClassifyStageInit ==
    /\ pc = "classify_init"
    /\ \E l \in ItemListsUpTo(MaxItems) : word_timestamps = Some(l)
    /\ calls = << "extract_audio", "transcribe_audio" >>
    /\ temp_audio_original = ExtractedPath
    /\ files = { VideoFile, OtherTemp, ExtractedPath }
    /\ created = { ExtractedPath }
    /\ video_path = VideoFile
    /\ output_dir = OutDir
    /\ dirs = { OutDir }
    /\ stop_requested = FALSE
    /\ stopPc = "idle"
    /\ stopCalls = 0
    /\ flagSetPc = ""
    /\ callsAtFlagSet = 0
    /\ temp_audio_censored = None
    /\ idx = 0
    /\ segments_to_censor = << >>
    /\ censored_path = None
    /\ final_output_path = None
    /\ reassembly_ok = FALSE
    /\ success = FALSE
    /\ events = << >>
    /\ cleanups = 0
    /\ delFailed = FALSE
    /\ original_duration_ms = 0
    /\ applied = << >>
    /\ censor_via = ""
    /\ synth_failed = { }
    /\ beep_sounds = << >>
    /\ final_audio = source_audio(0)
    /\ escaped_from = ""
    /\ ClassifierIdle
    /\ GuiIdle
    /\ SttIdle

ClassifyNext ==
    \/ ClassifyInit \/ LoopCheck \/ LoopBody \/ PostClassify \/ ChkClassify
    \/ Alloc \/ ChkAlloc

ClassifySpec == ClassifyStageInit /\ [][ClassifyNext]_vars

----------------------------------------------------------------------------
(* classify_word on its own: one call under every enumerated configuration *)
(* and environment.                                                        *)

\* no run of the controller is looked at
NoRun ==
    /\ stop_requested = FALSE
    /\ stopPc = "idle"
    /\ stopCalls = 0
    /\ flagSetPc = ""
    /\ callsAtFlagSet = 0
    /\ video_path = VideoFile
    /\ output_dir = OutDir
    /\ files = { VideoFile, OtherTemp }
    /\ dirs = { OutDir }
    /\ temp_audio_original = None
    /\ temp_audio_censored = None
    /\ word_timestamps = << >>
    /\ idx = 0
    /\ segments_to_censor = << >>
    /\ censored_path = None
    /\ final_output_path = None
    /\ reassembly_ok = FALSE
    /\ success = FALSE
    /\ events = << >>
    /\ calls = << >>
    /\ cleanups = 0
    /\ delFailed = FALSE
    /\ created = { }
    /\ original_duration_ms = 0
    /\ applied = << >>
    /\ censor_via = ""
    /\ synth_failed = { }
    /\ beep_sounds = << >>
    /\ final_audio = source_audio(0)
    /\ escaped_from = ""

Configs ==
    [classification_mode : { Missing, None, "model", "keyword", "regex" },
     classification_model_name : { Missing, None, "m" },
     abuse_label : { Missing, None, "abusive" },
     abuse_confidence_threshold : { Missing, None, "0.5", "'0.9'", "'high'" },
     keyword_file : { Missing, None, "kw.txt" }]

Environments ==
    [model_loads : BOOLEAN,
     inference : { "raises", "empty_list", "no_score", "score_not_a_number",
                   "abusive_95", "abusive_60", "clean_95" },
     keyword_file : { "absent", "unreadable", "empty", "listed" }]

Words == { NotAString, "", "...", "Bad!", "ok" }

ClassifierInit ==
    /\ pc = "classifier"
    /\ CONFIG \in Configs
    /\ classifier_env \in Environments
    /\ classified = << >>
    /\ NoRun
    /\ GuiIdle
    /\ SttIdle

\* classify_word(word_text) is called
ClassifyWord ==
    /\ pc = "classifier"
    /\ \E w \in Words :
          classified' = << [word |-> w,
                           outcome |-> classify_word_under(CONFIG, classifier_env, w)] >>
    /\ pc' = "classified"
    /\ UNCHANGED << stopVars, inputVars, sttVars, guiVars, planVars, escaped_from, fsVars,
                    runLocals, temp_audio_original, temp_audio_censored, events,
                    calls, cleanups, CONFIG, classifier_env >>

ClassifierSpec == ClassifierInit /\ [][ClassifyWord]_vars

----------------------------------------------------------------------------
(* transcribe_audio on its own, over every enumerated result of the model *)

SttInit ==
    /\ pc = "stt"
    /\ whisper_result \in [text : { "", "t" }, words : WordInfoListsUpTo(MaxRaw)]
    /\ NoRun
    /\ ClassifierIdle
    /\ GuiIdle

\* transcribe_audio(audio_path, progress_callback): the model raises (None),
\* returns no text (an empty list), or its words are taken over
SttTranscribe ==
    /\ pc = "stt"
    /\ \/ /\ word_timestamps' = << >>
          /\ events' = events \o << StatusEv(MsgSttStarted), StatusEv(MsgSttError) >>
          /\ pc' = "stt_failed"
       \/ /\ events' = events \o << StatusEv(MsgSttStarted), StatusEv(MsgSttParsing) >>
          /\ IF whisper_result.text = ""
             THEN /\ word_timestamps' = Some(<< >>)
                  /\ pc' = "stt_no_text"
             ELSE /\ word_timestamps' = Some(words_of(whisper_result.words))
                  /\ pc' = "stt_parsed"
    /\ UNCHANGED << stopVars, inputVars, sttVars, classifierVars, guiVars, planVars,
                    escaped_from, fsVars, idx, segments_to_censor, censored_path,
                    final_output_path, reassembly_ok, success, temp_audio_original,
                    temp_audio_censored, calls, cleanups >>

SttSpec == SttInit /\ [][SttTranscribe]_vars

----------------------------------------------------------------------------
(* The application: the Start button, the threads it starts, the callbacks *)
(* the threads schedule on the main loop, and the closing of the window.   *)

\* self.processing_thread and self.processing_thread.is_alive()
thread_is_alive ==
    processing_thread # 0 /\ workers[processing_thread] # "exited"

\* (variant) the button stays enabled while a run is in progress
button_left_enabled == "normal"

\* self.action_button.configure(state="disabled", text="Processing...")
button_while_processing == "disabled"

\* browse_input_file: the user picks the video file
BrowseInput ==
    /\ pc = "mainloop"
    /\ window = "open"
    /\ selected_input_file # VideoFile
    /\ selected_input_file' = VideoFile
    /\ UNCHANGED << pc, stopVars, inputVars, sttVars, classifierVars, planVars, escaped_from,
                    fsVars, runLocals, temp_audio_original, temp_audio_censored,
                    events, calls, cleanups, action_button, processing_thread,
                    workers, after_queue, window, selected_output_dir >>

\* browse_output_folder: the user picks the output directory
BrowseOutput ==
    /\ pc = "mainloop"
    /\ window = "open"
    /\ selected_output_dir # OutDir
    /\ selected_output_dir' = OutDir
    /\ UNCHANGED << pc, stopVars, inputVars, sttVars, classifierVars, planVars, escaped_from,
                    fsVars, runLocals, temp_audio_original, temp_audio_censored,
                    events, calls, cleanups, action_button, processing_thread,
                    workers, after_queue, window, selected_input_file >>

\* a click on the Start button, which calls its command only while it is
\* not disabled: start_processing returns early when a thread is alive or
\* an input is invalid, else it disables the button and starts a new thread
ClickStart ==
    /\ pc = "mainloop"
    /\ window = "open"
    /\ action_button = "normal"
    /\ Len(workers) < MaxRuns
    /\ IF \/ thread_is_alive
          \/ Falsy(selected_input_file) \/ ~isfile(selected_input_file)
          \/ Falsy(selected_output_dir) \/ ~isdir(selected_output_dir)
       THEN UNCHANGED << action_button, processing_thread, workers >>
       ELSE /\ action_button' = button_while_processing
            /\ workers' = Append(workers, "running")
            /\ processing_thread' = Len(workers) + 1
    /\ UNCHANGED << pc, stopVars, inputVars, sttVars, classifierVars, planVars, escaped_from,
                    fsVars, runLocals, temp_audio_original, temp_audio_censored,
                    events, calls, cleanups, after_queue, window,
                    selected_input_file, selected_output_dir >>

\* thread t reaches the last statement of its finally block and calls
\* completion_callback, which is self.after(0, self.processing_complete, s, p):
\* the call is queued for the main loop; on a destroyed window self.after
\* raises and the thread ends
WorkerCompletes(t) ==
    /\ pc = "mainloop"
    /\ workers[t] = "running"
    /\ IF window = "open"
       THEN /\ after_queue' = Append(after_queue, t)
            /\ workers' = [workers EXCEPT ![t] = "completed"]
       ELSE /\ after_queue' = after_queue
            /\ workers' = [workers EXCEPT ![t] = "exited"]
    /\ UNCHANGED << pc, stopVars, inputVars, sttVars, classifierVars, planVars, escaped_from,
                    fsVars, runLocals, temp_audio_original, temp_audio_censored,
                    events, calls, cleanups, action_button, processing_thread,
                    window, selected_input_file, selected_output_dir >>

\* thread t logs "Workflow finished", returns from run() and ends
WorkerExits(t) ==
    /\ pc = "mainloop"
    /\ workers[t] = "completed"
    /\ workers' = [workers EXCEPT ![t] = "exited"]
    /\ UNCHANGED << pc, stopVars, inputVars, sttVars, classifierVars, planVars, escaped_from,
                    fsVars, runLocals, temp_audio_original, temp_audio_censored,
                    events, calls, cleanups, action_button, processing_thread,
                    after_queue, window, selected_input_file, selected_output_dir >>

\* the main loop runs the next queued processing_complete: the button is
\* enabled again and the thread reference cleared
ProcessingComplete ==
    /\ pc = "mainloop"
    /\ window = "open"
    /\ after_queue # << >>
    /\ after_queue' = Tail(after_queue)
    /\ action_button' = "normal"
    /\ processing_thread' = 0
    /\ UNCHANGED << pc, stopVars, inputVars, sttVars, classifierVars, planVars, escaped_from,
                    fsVars, runLocals, temp_audio_original, temp_audio_censored,
                    events, calls, cleanups, workers, window,
                    selected_input_file, selected_output_dir >>

\* on_closing: with a thread alive the user is asked; on "yes" the thread's
\* stop() is called and the window destroyed, on "no" nothing happens;
\* without a thread alive the window is destroyed.  Callbacks queued on a
\* destroyed window never run.
OnClosing ==
    /\ pc = "mainloop"
    /\ window = "open"
    /\ \/ /\ thread_is_alive
          /\ stop_requested' = Event_set(stop_requested)
          /\ stopCalls' = stopCalls + 1
       \/ /\ ~thread_is_alive
          /\ UNCHANGED << stop_requested, stopCalls >>
    /\ window' = "destroyed"
    /\ after_queue' = << >>
    /\ UNCHANGED << pc, stopPc, flagSetPc, callsAtFlagSet, inputVars, sttVars, classifierVars,
                    planVars, escaped_from, fsVars, runLocals, temp_audio_original,
                    temp_audio_censored, events, calls, cleanups, action_button,
                    processing_thread, workers, selected_input_file,
                    selected_output_dir >>

\* RedactorApp after __init__, before the main loop handles its first event
GuiInit ==
    /\ pc = "mainloop"
    /\ action_button = "normal"
    /\ processing_thread = 0
    /\ workers = << >>
    /\ after_queue = << >>
    /\ window = "open"
    /\ selected_input_file = None
    /\ selected_output_dir = None
    /\ NoRun
    /\ ClassifierIdle
    /\ SttIdle

GuiNext ==
    \/ BrowseInput \/ BrowseOutput \/ ClickStart \/ ProcessingComplete \/ OnClosing
    \/ \E t \in 1..Len(workers) : WorkerCompletes(t) \/ WorkerExits(t)

GuiSpec == GuiInit /\ [][GuiNext]_vars

----------------------------------------------------------------------------
(* Callbacks that raise.  update_status and update_progress call the       *)
(* caller's callbacks unprotected, so an exception of a callback is raised *)
(* at the call site inside run().                                          *)

\* the next statement of the worker, inside the try block, calls
\* update_status or update_progress
CallsBackInTry ==
    \/ pc \in { "extract", "transcribe", "classify_init", "post_classify",
                "alloc", "pick_output", "finish" }
    \/ pc = "validate" /\ (video_path_invalid \/ output_dir_invalid)
    \/ pc = "chk_reassemble" /\ (~reassembly_ok \/ is_set)

\* a callback called inside the try block raises: control goes to the
\* except clause before the statements that follow the call
StageCallbackRaises ==
    /\ CallsBackInTry
    /\ pc' = "except"
    /\ UNCHANGED << stopVars, inputVars, sttVars, classifierVars, guiVars, planVars, escaped_from, fsVars, runLocals,
                    temp_audio_original, temp_audio_censored, events, calls,
                    cleanups >>

\* the status callback raises when the except clause reports through it:
\* the new exception leaves the except clause (success = False is not
\* reached), the finally block runs, and then the exception leaves run()
HandlerCallbackRaises ==
    /\ pc = "except"
    /\ escaped_from' = "except"
    /\ pc' = "cleanup"
    /\ UNCHANGED << stopVars, inputVars, sttVars, classifierVars, guiVars, planVars, fsVars, runLocals,
                    temp_audio_original, temp_audio_censored, events, calls,
                    cleanups >>

\* the status callback raises when the finally block reports the stop:
\* the rest of the finally block, the completion callback included, is
\* not executed and the exception leaves run()
FinallyCallbackRaises ==
    /\ pc = "fin_check"
    /\ is_set
    /\ escaped_from' = IF escaped_from = "" THEN "finally" ELSE escaped_from
    /\ pc' = "done"
    /\ UNCHANGED << stopVars, inputVars, sttVars, classifierVars, guiVars, planVars, fsVars, runLocals,
                    temp_audio_original, temp_audio_censored, events, calls,
                    cleanups >>

NextRaising ==
    \/ Next
    \/ StageCallbackRaises \/ HandlerCallbackRaises \/ FinallyCallbackRaises

SpecRaising == Init /\ [][NextRaising]_vars

----------------------------------------------------------------------------
(* The censoring step on its own: censor_audio applied to bounded lists of *)
(* flagged intervals and bounded audio durations, and applied once more to *)
(* the intervals it overlaid.                                              *)

\* a time in seconds, given by its number of milliseconds
Secs(ms) == ms * TicksPerMs

\* the times in seconds of the enumerated intervals; one lies below zero
TimeGrid == (0 - 1)..MaxTick

RECURSIVE SegListsUpTo(_)
SegListsUpTo(n) ==
    IF n = 0 THEN { << >> }
    ELSE LET shorter == SegListsUpTo(n - 1)
         IN  shorter \cup { Append(l, << s, e >>) :
                              l \in { x \in shorter : Len(x) = n - 1 },
                              s \in TimeGrid, e \in TimeGrid }

\* flagged intervals (2.0,2.5), (2.4,3.0), (10,9) and a duration of 20 s
ExampleSegments ==
    << << Secs(2000), Secs(2500) >>, << Secs(2400), Secs(3000) >>,
       << Secs(10000), Secs(9000) >> >>

ExampleDuration == 20 * 1000

SegLists == SegListsUpTo(MaxSegs) \cup { ExampleSegments }

PlanInit ==
    /\ pc = "plan"
    /\ segments_to_censor \in SegLists
    /\ original_duration_ms \in Durations \cup { ExampleDuration }
    /\ applied = << >>
    /\ censor_via = ""
    /\ synth_failed = { }
    /\ beep_sounds = << >>
    /\ final_audio = source_audio(0)
    /\ stop_requested = FALSE
    /\ stopPc = "idle"
    /\ stopCalls = 0
    /\ video_path = VideoFile
    /\ output_dir = OutDir
    /\ files = { VideoFile, ExtractedPath }
    /\ dirs = { OutDir }
    /\ temp_audio_original = ExtractedPath
    /\ temp_audio_censored = CensoredPath
    /\ word_timestamps = << >>
    /\ idx = 0
    /\ censored_path = None
    /\ final_output_path = None
    /\ reassembly_ok = FALSE
    /\ success = FALSE
    /\ events = << >>
    /\ calls = << >>
    /\ cleanups = 0
    /\ delFailed = FALSE
    /\ flagSetPc = ""
    /\ callsAtFlagSet = 0
    /\ created = { }
    /\ escaped_from = ""
    /\ ClassifierIdle
    /\ GuiIdle
    /\ SttIdle

\* censor_audio(original, segments_to_censor, output_path) returns output_path
PlanCensor ==
    /\ pc = "plan"
    /\ \E r \in { censor_audio(segments_to_censor, original_duration_ms) } :
           /\ applied' = r.applied
           /\ censor_via' = r.via
           /\ \E failing \in SUBSET (1..Len(r.applied)) :
                 /\ synth_failed' = failing
                 /\ beep_sounds' = SelectSeq(beeps_for(r.applied, failing),
                                             LAMBDA b : b.kind # "None")
                 /\ final_audio' = written_audio(r, original_duration_ms, failing)
    /\ segments_to_censor' = sort_by_start(segments_to_censor)
    /\ files' = files \cup { temp_audio_censored }
    /\ created' = created \cup { temp_audio_censored }
    /\ censored_path' = temp_audio_censored
    /\ calls' = Append(calls, "censor_audio")
    /\ pc' = "planned"
    /\ UNCHANGED << stopVars, inputVars, sttVars, classifierVars, guiVars, original_duration_ms, escaped_from, delFailed,
                    word_timestamps, idx, final_output_path, reassembly_ok, success,
                    temp_audio_original, temp_audio_censored, events, cleanups >>

\* the overlaid intervals as times in seconds (ms / 1000)
SecondsOf(intervals) ==
    [ k \in 1..Len(intervals) |-> << Secs(intervals[k][1]), Secs(intervals[k][2]) >> ]

\* censor_audio once more, on the intervals it has overlaid, same duration
PlanAgain ==
    /\ pc = "planned"
    /\ \E r \in { censor_audio(SecondsOf(applied), original_duration_ms) } :
           /\ applied' = r.applied
           /\ censor_via' = r.via
           /\ segments_to_censor' = sort_by_start(SecondsOf(applied))
           /\ \E failing \in SUBSET (1..Len(r.applied)) :
                 /\ synth_failed' = failing
                 /\ beep_sounds' = SelectSeq(beeps_for(r.applied, failing),
                                             LAMBDA b : b.kind # "None")
                 /\ final_audio' = written_audio(r, original_duration_ms, failing)
    /\ calls' = Append(calls, "censor_audio")
    /\ pc' = "replanned"
    /\ UNCHANGED << stopVars, inputVars, sttVars, classifierVars, guiVars, original_duration_ms, escaped_from, fsVars,
                    word_timestamps, idx, censored_path, final_output_path,
                    reassembly_ok, success, temp_audio_original,
                    temp_audio_censored, events, cleanups >>

PlanNext == PlanCensor \/ PlanAgain

PlanSpec == PlanInit /\ [][PlanNext]_vars

----------------------------------------------------------------------------
(* What the callbacks and the collaborators have seen so far *)

Completions == SelectSeq(events, LAMBDA e : e.kind = "complete")

ProgressEvents == SelectSeq(events, LAMBDA e : e.kind = "progress")

StatusSeen(m) == \E k \in 1..Len(events) : events[k].kind = "status" /\ events[k].msg = m

InCalls(c) == \E k \in 1..Len(calls) : calls[k] = c

\* the completion notification carries success=false and no output path
CompletedAsFailure == ~Completions[1].ok /\ Completions[1].path = None

InputInvalid ==
    \/ Falsy(video_path) \/ ~isfile(video_path)
    \/ Falsy(output_dir) \/ ~isdir(output_dir)

\* worker positions of the classification stage (step 3 of run())
ClassifyPcs == { "classify_init", "loop_check", "loop_body", "post_classify", "chk_classify" }

\* worker positions from which the finally block's flag check is still ahead
BeforeFinalCheckPcs ==
    { "NotStarted", "validate", "extract", "chk_extract", "transcribe",
      "chk_transcribe", "alloc", "chk_alloc", "censor", "chk_censor",
      "pick_output", "reassemble", "chk_reassemble", "finish", "except",
      "cleanup", "fin_check" } \cup ClassifyPcs

----------------------------------------------------------------------------
(* C1 *)

\* C1: every run of run() invokes the completion callback exactly once,
\* whatever its outcome: no completion before the run ends, exactly one when
\* it has ended, and the worker can always take its next step until then.
C1_CompletionExactlyOnce ==
    /\ Len(Completions) = (IF pc = "done" THEN 1 ELSE 0)
    /\ pc # "done" => ENABLED WorkerStep

\* a run that went through the except handler with a stop requested has ended
C1_Witness ==
    /\ pc = "done"
    /\ StatusSeen(MsgUnexpected)
    /\ stop_requested
    /\ Len(Completions) = 1

----------------------------------------------------------------------------
(* C2 *)

\* C2: the completion notification is the last event of a run: once it has
\* been delivered, no status and no progress callback is invoked any more.
C2_CompletionIsLastEvent == [][Len(Completions) > 0 => events' = events]_vars

----------------------------------------------------------------------------
(* C3 *)

\* C3 as stated: if the flag was set by stop() before the completion
\* notification was delivered, the notification carries success=false and no
\* output path.
C3_StopBeforeCompletion ==
    (pc = "done" /\ flagSetPc \notin { "", "done" }) => CompletedAsFailure

\* C3 as amended: if the flag was set by stop() before the worker's check of
\* the flag in the finally block, the notification carries success=false and
\* no output path.
C3_StopBeforeFinalCheck ==
    (pc = "done" /\ flagSetPc \in BeforeFinalCheckPcs) => CompletedAsFailure

\* the flag is set after a successful reassembly was marked as success and
\* before the finally block's check; the run has ended
C3_Witness ==
    /\ pc = "done"
    /\ flagSetPc \in { "cleanup", "fin_check" }
    /\ reassembly_ok
    /\ StatusSeen(MsgComplete)

----------------------------------------------------------------------------
(* C4 *)

\* C4: success=true is reported only if reassemble_video was invoked and
\* returned success; a run in which validation, extraction, transcription,
\* censoring or reassembly failed ends with success=false.
C4_SuccessOnlyAfterReassembly ==
    pc = "done" =>
        /\ Completions[1].ok => (InCalls("reassemble_video") /\ reassembly_ok)
        /\ ( \/ InputInvalid
             \/ InCalls("extract_audio") /\ Falsy(temp_audio_original)
             \/ InCalls("transcribe_audio") /\ IsNone(word_timestamps)
             \/ InCalls("censor_audio") /\ Falsy(censored_path)
             \/ InCalls("reassemble_video") /\ ~reassembly_ok )
           => ~Completions[1].ok

\* a run ended with success=true
C4_Witness ==
    /\ pc = "done"
    /\ Completions[1].ok
    /\ Completions[1].path = final_output_path
    /\ final_output_path \in files

----------------------------------------------------------------------------
(* C5 *)

\* the stage collaborators that may directly follow one another
MayFollow ==
    { << "extract_audio", "transcribe_audio" >>,
      << "transcribe_audio", "classify_word" >>,
      << "transcribe_audio", "censor_audio" >>,
      << "classify_word", "classify_word" >>,
      << "classify_word", "censor_audio" >>,
      << "censor_audio", "reassemble_video" >> }

\* C5: the collaborators are invoked in the order extract_audio,
\* transcribe_audio, classify_word (zero or more times), censor_audio,
\* reassemble_video, each of the four others at most once, and a stage is
\* invoked only after the previous stage returned a non-failure result.
C5_StagesInOrder ==
    /\ calls # << >> => calls[1] = "extract_audio"
    /\ \A k \in 1..(Len(calls) - 1) : << calls[k], calls[k + 1] >> \in MayFollow
    /\ InCalls("transcribe_audio") => ~Falsy(temp_audio_original)
    /\ (InCalls("classify_word") \/ InCalls("censor_audio")) => ~IsNone(word_timestamps)
    /\ InCalls("censor_audio") => ~Falsy(temp_audio_censored)
    /\ InCalls("reassemble_video") => ~Falsy(censored_path)

\* a run through all five stages with two classified words has ended
C5_Witness ==
    /\ pc = "done"
    /\ calls = << "extract_audio", "transcribe_audio", "classify_word",
                  "classify_word", "censor_audio", "reassemble_video" >>

----------------------------------------------------------------------------
(* C6 *)

\* C6: within a run the values passed to the progress callback never
\* decrease, for every word count and every stopping point.
C6_ProgressMonotonic ==
    \A i, j \in 1..Len(ProgressEvents) :
        i < j => ProgressEvents[i].value <= ProgressEvents[j].value

\* a successful run over more than 50 words has reported 100%
C6_Witness ==
    /\ pc = "done"
    /\ NumWords > 50
    /\ Completions[1].ok
    /\ ProgressEvents[Len(ProgressEvents)].value = 100
    /\ Len(ProgressEvents) >= 9

----------------------------------------------------------------------------
(* C7 *)

\* worker positions up to the first statement of each stage
UpToExtract == { "NotStarted", "validate", "extract" }

UpToTranscribe == UpToExtract \cup { "chk_extract", "transcribe" }

UpToClassify == UpToTranscribe \cup { "chk_transcribe", "classify_init" }

UpToCensor == UpToClassify \cup ClassifyPcs \cup { "alloc" }

UpToReassemble == UpToCensor \cup { "chk_alloc", "censor", "chk_censor", "pick_output" }

\* C7: the flag is checked at the start of every stage: if the flag is
\* already set when a stage is about to begin, the stage's collaborator is
\* not invoked.
C7_CheckedAtStageStart ==
    /\ flagSetPc \in UpToExtract => ~InCalls("extract_audio")
    /\ flagSetPc \in UpToTranscribe => ~InCalls("transcribe_audio")
    /\ flagSetPc \in UpToClassify => ~InCalls("classify_word")
    /\ flagSetPc \in UpToCensor => ~InCalls("censor_audio")
    /\ flagSetPc \in UpToReassemble => ~InCalls("reassemble_video")

----------------------------------------------------------------------------
(* C8 *)

\* C8: if the flag is set while the run is in the classification stage,
\* neither censor_audio nor reassemble_video is invoked afterwards, no output
\* video file is created, and the completion notification carries
\* success=false and no output path.
C8_StopDuringClassification ==
    flagSetPc \in ClassifyPcs =>
        /\ ~InCalls("censor_audio")
        /\ ~InCalls("reassemble_video")
        /\ created \cap OutputFiles = { }
        /\ pc = "done" => CompletedAsFailure

\* the flag was set inside the loop after the first word; the run has ended
C8_Witness ==
    /\ pc = "done"
    /\ flagSetPc = "loop_body"
    /\ idx >= 1
    /\ idx < NumWords

----------------------------------------------------------------------------
(* C9 *)

\* C9: on every path cleanup runs exactly once and before the completion
\* notification; when no deletion failed, neither the extracted audio nor
\* the censored audio exists when the completion callback is invoked.
C9_CleanupOnceBeforeCompletion ==
    /\ cleanups = (IF pc \in { "fin_check", "complete", "done" } THEN 1 ELSE 0)
    /\ Len(Completions) > 0 => cleanups = 1
    /\ (pc \in { "complete", "done" } /\ ~delFailed) =>
           (ExtractedPath \notin files /\ CensoredPath \notin files)

\* transcription returned None after a successful extraction; the run has
\* ended and the extracted audio is gone
C9_Witness ==
    /\ pc = "done"
    /\ calls = << "extract_audio", "transcribe_audio" >>
    /\ IsNone(word_timestamps)
    /\ StatusSeen(MsgErrTranscribe)
    /\ ExtractedPath \in created
    /\ ExtractedPath \notin files
    /\ ~delFailed

----------------------------------------------------------------------------
(* C10 *)

\* C10: the controller's cleanup removes nothing but the two intermediate
\* artifacts: the final output, the input video and every other file of the
\* temporary directory are left as they were.
C10_CleanupRemovesOnlyIntermediates ==
    [][cleanups' # cleanups =>
          \A f \in files :
              f \notin { temp_audio_original, temp_audio_censored } => f \in files']_vars

\* after cleanup both intermediates are gone and the output written by the
\* run, the input video and the other temporary file are still there
C10_Witness ==
    /\ pc = "done"
    /\ ExtractedPath \in created \ files
    /\ CensoredPath \in created \ files
    /\ \E f \in OutputFiles : f \in created /\ f \in files
    /\ VideoFile \in files
    /\ OtherTemp \in files

----------------------------------------------------------------------------
(* C11 *)

\* C11: if the input video path is empty or not an existing file, or the
\* output directory is empty or not an existing directory, no collaborator
\* is invoked, an error status is emitted, and the run ends with
\* completion(success=false, no output path).
C11_InvalidInputEndsRun ==
    InputInvalid =>
        /\ calls = << >>
        /\ pc = "done" =>
              /\ StatusSeen(MsgBadInput) \/ StatusSeen(MsgBadOutDir)
              /\ CompletedAsFailure

\* a run with a valid video and an invalid output directory has ended
C11_Witness ==
    /\ pc = "done"
    /\ isfile(video_path)
    /\ Falsy(output_dir) \/ ~isdir(output_dir)
    /\ StatusSeen(MsgBadOutDir)
    /\ calls = << >>

----------------------------------------------------------------------------
(* C12 *)

\* collaborator c was invoked and returned (it did not raise)
Returned(c) == InCalls(c) /\ ~StatusSeen(MsgUnexpected)

ExtractFailed == Returned("extract_audio") /\ Falsy(temp_audio_original)

TranscribeFailed == Returned("transcribe_audio") /\ IsNone(word_timestamps)

CensorFailed == Returned("censor_audio") /\ Falsy(censored_path)

ReassembleFailed == Returned("reassemble_video") /\ ~reassembly_ok

\* what C12 says of a run that has ended, but for the status of the first
\* three stages: no later collaborator, cleanup, success=false, and the
\* status of a failed reassembly
StageFailureEndsRun ==
    /\ ExtractFailed => calls = << "extract_audio" >>
    /\ TranscribeFailed => calls = << "extract_audio", "transcribe_audio" >>
    /\ CensorFailed => ~InCalls("reassemble_video")
    /\ ReassembleFailed => StatusSeen(MsgErrReassemble)
    /\ (ExtractFailed \/ TranscribeFailed \/ CensorFailed \/ ReassembleFailed) =>
          (cleanups = 1 /\ ~Completions[1].ok)

\* C12 as stated: when extract_audio, transcribe_audio or censor_audio
\* returns None, no later collaborator is invoked, an error status naming
\* the failed stage is emitted, cleanup executes and success=false; the same
\* holds for status, cleanup and success when reassemble_video returns False.
C12_StageFailureReported ==
    pc = "done" =>
        /\ StageFailureEndsRun
        /\ ExtractFailed => StatusSeen(MsgErrExtract)
        /\ TranscribeFailed => StatusSeen(MsgErrTranscribe)
        /\ CensorFailed => StatusSeen(MsgErrCensor)

\* C12 as amended: the error status of extract, transcribe and censor is
\* emitted unless the flag is set when the result is checked; then the
\* status is "Processing stopped by user." instead.
C12_StageFailureReportedOrStopped ==
    pc = "done" =>
        /\ StageFailureEndsRun
        /\ ExtractFailed => (StatusSeen(MsgErrExtract) \/ StatusSeen(MsgStoppedByUser))
        /\ TranscribeFailed => (StatusSeen(MsgErrTranscribe) \/ StatusSeen(MsgStoppedByUser))
        /\ CensorFailed => (StatusSeen(MsgErrCensor) \/ StatusSeen(MsgStoppedByUser))
        /\ ~stop_requested =>
              /\ ExtractFailed => StatusSeen(MsgErrExtract)
              /\ TranscribeFailed => StatusSeen(MsgErrTranscribe)
              /\ CensorFailed => StatusSeen(MsgErrCensor)

\* censor_audio returned None and the run has ended with its error status
C12_Witness ==
    /\ pc = "done"
    /\ CensorFailed
    /\ StatusSeen(MsgErrCensor)
    /\ ~stop_requested
    /\ calls[Len(calls)] = "censor_audio"

----------------------------------------------------------------------------
(* C13 *)

EmptyWordList == word_timestamps = Some(<< >>)

\* C13: None from transcription is a stage failure, an empty word list is
\* not: with an empty list no transcription error is reported,
\* classify_word is never invoked, censor_audio is invoked with no flagged
\* interval, and a run that is not stopped goes on to the censoring stage.
C13_EmptyListIsNotFailure ==
    /\ EmptyWordList =>
          /\ ~StatusSeen(MsgErrTranscribe)
          /\ ~InCalls("classify_word")
          /\ InCalls("censor_audio") => segments_to_censor = << >>
          /\ (pc = "done" /\ ~StatusSeen(MsgStopped)) => StatusSeen(MsgStep4)
    /\ (pc = "done" /\ TranscribeFailed) =>
          (~StatusSeen(MsgStep3) /\ ~Completions[1].ok)

\* a run over an empty word list has gone through censor_audio and ended
C13_Witness ==
    /\ pc = "done"
    /\ EmptyWordList
    /\ InCalls("censor_audio")
    /\ ~InCalls("classify_word")
    /\ StatusSeen(MsgStep3)

----------------------------------------------------------------------------
(* C14 *)

\* C14: when transcription yields an empty word list, no stop is requested
\* and reassembly succeeds, the censored audio handed to reassembly is a
\* copy of the extracted audio (nothing overlaid), and the run ends with
\* success=true and the chosen output path.
C14_EmptyListCopiesAudio ==
    (pc = "done" /\ EmptyWordList /\ stopCalls = 0 /\ reassembly_ok) =>
        /\ censor_via = "copyfile"
        /\ applied = << >>
        /\ CensoredPath \in created
        /\ Completions[1].ok
        /\ Completions[1].path = final_output_path
        /\ final_output_path \in OutputFiles

\* such a run has ended, its output written beside an existing candidate
C14_Witness ==
    /\ pc = "done"
    /\ EmptyWordList
    /\ stopCalls = 0
    /\ reassembly_ok
    /\ Completions[1].path = Candidate(1)

----------------------------------------------------------------------------
(* C15 *)

\* an exception was raised inside the try block of run()
RaisedInTry == StatusSeen(MsgUnexpected) \/ escaped_from = "except"

\* C15: if a collaborator or a callback invoked inside the stages raises,
\* the exception does not leave run(): cleanup runs and the completion
\* notification is delivered with success=false.
C15_ExceptionsConverted ==
    (pc = "done" /\ RaisedInTry) =>
        /\ escaped_from = ""
        /\ cleanups = 1
        /\ Len(Completions) = 1
        /\ ~Completions[1].ok

----------------------------------------------------------------------------
(* C16 *)

\* C16: the output path handed to reassemble_video is the first candidate
\* of name_censored, name_censored_1, ... that does not exist; it does not
\* exist when reassemble_video is called, and the call removes or replaces
\* no existing file.
C16_OutputNeverOverwrites ==
    [][pc = "reassemble" =>
          /\ final_output_path \notin files
          /\ \E k \in 0..(MaxCollide + 1) :
                /\ final_output_path = Candidate(k)
                /\ \A j \in 0..(k - 1) : Candidate(j) \in files
          /\ files \subseteq files'
          /\ files' \ files \subseteq { final_output_path }]_vars

\* every enumerated candidate existed and the output went to the next one
C16_Witness ==
    /\ pc = "chk_reassemble"
    /\ reassembly_ok
    /\ final_output_path = Candidate(MaxCollide + 1)
    /\ \A j \in 0..MaxCollide : Candidate(j) \in files \ created
    /\ final_output_path \in created

----------------------------------------------------------------------------
(* C17 *)

----------------------------------------------------------------------------
(* C18 *)

\* C18: every interval the censoring step overlays satisfies
\* 0 <= start <= end <= D, D being the duration of the audio.
C18_AppliedWithinAudio ==
    \A k \in 1..Len(applied) :
        /\ 0 <= applied[k][1]
        /\ applied[k][1] <= applied[k][2]
        /\ applied[k][2] <= original_duration_ms

\* an interval that began below zero and ended beyond the audio was overlaid
\* from 0 to D
C18_Witness ==
    /\ pc = "planned"
    /\ original_duration_ms > 0
    /\ \E k \in 1..Len(segments_to_censor) :
          /\ segments_to_censor[k][1] < 0
          /\ seconds_to_milliseconds(segments_to_censor[k][2]) > original_duration_ms
    /\ applied[1] = << 0, original_duration_ms >>

----------------------------------------------------------------------------
(* C19 *)

\* C19: the overlaid intervals never overlap or touch: for consecutive
\* overlaid intervals (a,b) then (c,d), b < c.
C19_AppliedNeverTouch ==
    \A k \in 1..(Len(applied) - 1) : applied[k][2] < applied[k + 1][1]

----------------------------------------------------------------------------
(* C20 *)

\* C20: for the flagged intervals (2.0,2.5), (2.4,3.0), (10,9) and a
\* duration of 20 s the intervals overlaid are exactly (2.0,3.0).
C20_ExamplePlan ==
    ( /\ pc = "planned"
      /\ segments_to_censor = ExampleSegments
      /\ original_duration_ms = ExampleDuration )
    => applied = << << 2000, 3000 >> >>

----------------------------------------------------------------------------
(* C21 *)

\* C21: censoring never changes the track length: whatever the flagged
\* intervals (none, overlapping, out of range), the audio written by
\* censor_audio has the duration of the original audio.
C21_DurationPreserved ==
    censor_via # "" => final_audio.len = original_duration_ms

\* two overlapping intervals, the second reaching beyond the end of the
\* audio, were overlaid with tones and the written audio is as long as the
\* original
C21_Witness ==
    /\ pc = "planned"
    /\ censor_via = "export"
    /\ Len(applied) = 2
    /\ applied[2][1] < applied[1][2]
    /\ \E k \in 1..Len(segments_to_censor) :
          seconds_to_milliseconds(segments_to_censor[k][2]) > original_duration_ms
    /\ final_audio.tones # { }
    /\ final_audio.len = original_duration_ms
    /\ original_duration_ms > 0

----------------------------------------------------------------------------
(* C22 *)

\* every segment handed to censor_audio has no length left after clamping
\* (in particular: there is no segment)
AllDropped ==
    \A k \in 1..Len(segments_to_censor) :
        LET c == clamp(segments_to_censor[k][1], segments_to_censor[k][2],
                       original_duration_ms)
        IN  c[2] - c[1] <= 0

\* C22: with no flagged interval, and also when every flagged interval is
\* dropped after clamping, censor_audio returns its output path and the
\* audio it wrote is an exact copy of the original.
C22_NothingToCensorCopies ==
    (pc \in { "planned", "replanned" } /\ AllDropped) =>
        /\ censor_via = "copyfile"
        /\ beep_sounds = << >>
        /\ final_audio = source_audio(original_duration_ms)
        /\ censored_path = temp_audio_censored
        /\ isfile(censored_path)

\* two flagged intervals were both dropped and the original was copied
C22_Witness ==
    /\ pc = "planned"
    /\ Len(segments_to_censor) = 2
    /\ AllDropped
    /\ original_duration_ms > 0
    /\ censor_via = "copyfile"
    /\ censored_path = CensoredPath

----------------------------------------------------------------------------
(* C30 *)

\* C30: a tone synthesis that fails for an interval does not fail the
\* censoring: silence of the interval's duration is overlaid in its place,
\* the other intervals get their tones, and censor_audio returns its output
\* path.
C30_ToneFailureGivesSilence ==
    (pc \in { "planned", "replanned" } /\ synth_failed # { }) =>
        /\ censor_via = "export"
        /\ censored_path = temp_audio_censored
        /\ Len(beep_sounds) = Len(applied)
        /\ \A k \in 1..Len(applied) :
              beep_sounds[k] = IF k \in synth_failed
                               THEN silent(applied[k][2] - applied[k][1])
                               ELSE sine(applied[k][2] - applied[k][1])

\* the synthesis failed for the first of two intervals: silence was overlaid
\* for the first and a tone for the second
C30_Witness ==
    /\ pc = "planned"
    /\ synth_failed = { 1 }
    /\ Len(applied) = 2
    /\ beep_sounds[1].kind = "silence"
    /\ beep_sounds[1].len > 0
    /\ beep_sounds[2].kind = "tone"
    /\ censor_via = "export"
    /\ censored_path = CensoredPath

----------------------------------------------------------------------------
(* C23 *)

\* C23: a second or later call of stop() on the same run is a no-op: its
\* steps change no state of the run and deliver no event.
C23_SecondStopIsNoOp ==
    [][(stopCalls >= 2 /\ stopPc' # stopPc) =>
          (events' = events /\ stop_requested' = stop_requested)]_vars

----------------------------------------------------------------------------
(* C25 *)

\* C25: the flag starts false and, once set by stop(), is never cleared:
\* from then on the flag is set and every read of it by the worker sees it
\* set.
C25_FlagMonotonic ==
    /\ stopCalls = 0 => ~stop_requested
    /\ flagSetPc # "" => (stop_requested /\ is_set)

\* stop() was called twice while the worker was classifying, and the run
\* has ended
C25_Witness ==
    /\ pc = "done"
    /\ stopCalls = 2
    /\ stopPc = "idle"
    /\ flagSetPc \in ClassifyPcs
    /\ stop_requested
    /\ StatusSeen(MsgStopped)

----------------------------------------------------------------------------
(* C26 *)

\* C26: the stop-or-error check gives cancellation precedence over failure:
\* with the flag set it ends the stage with the status "Processing stopped
\* by user." and no error status, whatever the result; otherwise it ends
\* the stage with the stage's error status exactly when the result signals
\* failure (None for the transcription, falsy for the others); otherwise
\* the run continues and nothing is emitted.
C26_StopBeforeError ==
    [][(pc \in { "chk_extract", "chk_transcribe", "chk_alloc", "chk_censor" }
          /\ pc' # pc) =>
          LET failure ==
                  CASE pc = "chk_extract" -> Falsy(temp_audio_original)
                    [] pc = "chk_transcribe" -> IsNone(word_timestamps)
                    [] pc = "chk_alloc" -> Falsy(temp_audio_censored)
                    [] OTHER -> Falsy(censored_path)
              error_message ==
                  CASE pc = "chk_extract" -> MsgErrExtract
                    [] pc = "chk_transcribe" -> MsgErrTranscribe
                    [] pc = "chk_alloc" -> MsgErrTempPath
                    [] OTHER -> MsgErrCensor
              continues ==
                  CASE pc = "chk_extract" -> "transcribe"
                    [] pc = "chk_transcribe" -> "classify_init"
                    [] pc = "chk_alloc" -> "censor"
                    [] OTHER -> "pick_output"
          IN  IF stop_requested
              THEN /\ events' = Append(events, StatusEv(MsgStoppedByUser))
                   /\ pc' = "cleanup"
              ELSE IF failure
                   THEN /\ events' = Append(events, StatusEv(error_message))
                        /\ pc' = "cleanup"
                   ELSE /\ events' = events
                        /\ pc' = continues]_vars

\* the flag was set while censor_audio was failing: the check reported the
\* stop and no error status, and the run has ended
C26_Witness ==
    /\ pc = "done"
    /\ CensorFailed
    /\ flagSetPc = "censor"
    /\ StatusSeen(MsgStoppedByUser)
    /\ ~StatusSeen(MsgErrCensor)

----------------------------------------------------------------------------
(* C27 *)

\* C27: once the flag is set during the classification of a word list, at
\* most one further classify_word invocation is started before the loop
\* exits (and no other collaborator is invoked).
C27_LoopExitsWithinOneWord ==
    flagSetPc \in ClassifyPcs => Len(calls) <= callsAtFlagSet + 1

\* the flag was set inside an iteration over the long word list: that
\* iteration classified its word, the next one left the loop
C27_Witness ==
    /\ pc = "done"
    /\ NumWords = LongWords
    /\ flagSetPc = "loop_body"
    /\ idx >= 2
    /\ idx < NumWords
    /\ Len(calls) = callsAtFlagSet + 1
    /\ calls[Len(calls)] = "classify_word"

----------------------------------------------------------------------------
(* C28 *)

\* C28: in the classification stage classify_word is invoked for exactly
\* the words that have a non-empty text and both timestamps, and the list
\* handed to censor_audio holds exactly the (start, end) pairs of the words
\* classified positive, one per such word, in transcription order.  Stated
\* for every prefix of the word list the loop has gone through.
C28_FlagsPositiveWordsInOrder ==
    pc \in { "loop_check", "post_classify", "chk_classify", "alloc",
             "chk_alloc", "censor" } =>
        LET seen == SubSeq(word_timestamps[1], 1, idx)
            complete == SelectSeq(seen, LAMBDA it :
                            it.word # "" /\ Len(it.start) = 1 /\ Len(it.end) = 1)
            positive == SelectSeq(complete, LAMBDA it : classify_word(it.word))
        IN  /\ pc # "loop_check" => idx = NumWords
            /\ Len(SelectSeq(calls, LAMBDA c : c = "classify_word")) = Len(complete)
            /\ Len(segments_to_censor) = Len(positive)
            /\ \A k \in 1..Len(positive) :
                  segments_to_censor[k] = << positive[k].start[1], positive[k].end[1] >>

\* a list of three items, one without a text between two positive words of
\* which the later one comes first in the list: censor_audio is about to be
\* called with the two pairs in the order of the list
C28_Witness ==
    /\ pc = "censor"
    /\ NumWords = 3
    /\ word_timestamps[1][2].word = ""
    /\ segments_to_censor = << << 2, 2 >>, << 1, 2 >> >>
    /\ calls = << "extract_audio", "transcribe_audio", "classify_word", "classify_word" >>

----------------------------------------------------------------------------
(* C29 *)

\* C29: classify_word never raises: for every word and every configuration
\* and environment it returns a boolean, and it returns false for a word it
\* cannot classify, an unknown mode and a missing model or label.
C29_ClassifyNeverRaises ==
    pc = "classified" =>
        /\ classified[1].outcome \in { "True", "False" }
        /\ ( \/ classified[1].word \in { NotAString, "", "..." }
             \/ CONFIG.classification_mode \in { None, "regex" }
             \/ /\ CONFIG.classification_mode = "model"
                /\ \/ CONFIG.classification_model_name \in { Missing, None }
                   \/ CONFIG.abuse_label \in { Missing, None }
                   \/ ~classifier_env.model_loads )
           => classified[1].outcome = "False"

----------------------------------------------------------------------------
(* C24 *)

\* the threads that have not yet ended
Alive == { t \in 1..Len(workers) : workers[t] # "exited" }

\* the threads whose run has not yet delivered its completion notification
Running == { t \in 1..Len(workers) : workers[t] = "running" }

\* C24 as stated: a new ProcessingWorkflow thread is never started while a
\* previously started one has not yet finished: at most one thread is alive.
C24_OneThreadAlive == Cardinality(Alive) <= 1

\* C24 as amended: a new ProcessingWorkflow thread is never started while
\* the run of a previously started one has not yet delivered its completion
\* notification: at most one run is in progress.
C24_OneRunInProgress == Cardinality(Running) <= 1

\* a third run is in progress after two runs that have completed and ended
C24_Witness ==
    /\ Len(workers) = 3
    /\ workers = << "exited", "exited", "running" >>
    /\ processing_thread = 3
    /\ action_button = "disabled"
    /\ window = "open"

----------------------------------------------------------------------------
(* C31, C32 *)

\* position p (in ms) lies in one of the intervals << from, to >>
InIntervals(p, ivs) == \E iv \in ivs : iv[1] <= p /\ p < iv[2]

\* the intervals censor_audio has overlaid
AppliedSet == { applied[k] : k \in 1..Len(applied) }

\* what the samples at position p of an audio buffer are made of: the rate
\* they are sampled at, whether the original signal is in them and whether
\* a tone is
sample_at(audio, p) ==
    [frame_rate |-> audio.frame_rate,
     source |-> InIntervals(p, audio.source_in),
     tone |-> InIntervals(p, audio.tones)]

\* the positions of the audio at which what its samples are made of can
\* change: its first and last position and the positions around the ends
\* of the overlaid intervals
Positions ==
    { p \in { 0, original_duration_ms - 1 }
             \cup UNION { { iv[1] - 1, iv[1], iv[2] - 1, iv[2] } : iv \in AppliedSet } :
        0 <= p /\ p < original_duration_ms }

\* C31: every sample position of the censored audio that lies in none of the
\* overlaid intervals equals the sample at the same position of the source
\* audio.
C31_OutsideUnchanged ==
    censor_via # "" =>
        \A p \in Positions :
            ~InIntervals(p, AppliedSet) =>
                sample_at(final_audio, p) = sample_at(source_audio(original_duration_ms), p)

\* C32: every sample position of the censored audio that lies in an overlaid
\* interval is made of the tone or the fallback silence alone: the source
\* signal is not in it.
C32_ToneReplacesSource ==
    censor_via # "" =>
        \A p \in Positions :
            InIntervals(p, AppliedSet) => ~sample_at(final_audio, p).source

----------------------------------------------------------------------------
(* C33 *)

\* C33: the segments are processed in ascending order of start, and segments
\* of equal start in ascending order of end (so that every permutation of
\* the same list is processed in the same order).
C33_SortedByStartThenEnd ==
    pc = "planned" =>
        \A i, j \in 1..Len(segments_to_censor) :
            i < j =>
                \/ segments_to_censor[i][1] < segments_to_censor[j][1]
                \/ /\ segments_to_censor[i][1] = segments_to_censor[j][1]
                   /\ segments_to_censor[i][2] <= segments_to_censor[j][2]

----------------------------------------------------------------------------
(* C34 *)

\* the 'Error: ...' status texts of run()
ControllerErrors ==
    { MsgBadInput, MsgBadOutDir, MsgErrExtract, MsgErrTranscribe, MsgErrTempPath,
      MsgErrCensor, MsgErrReassemble, MsgUnexpected }

\* every 'Error: ...' status text, the transcriber's included
ErrorTexts == ControllerErrors \cup { MsgSttError }

\* the 'Processing stopped' status texts
StoppedTexts == { MsgStopped, MsgStoppedByUser }

ErrorEmitted == \E m \in ErrorTexts : StatusSeen(m)

StoppedEmitted == \E m \in StoppedTexts : StatusSeen(m)

\* C34 as stated: a run in which an 'Error: ...' status was emitted never
\* also emits a 'Processing stopped' status.
C34_ErrorAndStoppedExclusive == ~(ErrorEmitted /\ StoppedEmitted)

\* C34 as amended: a run that emits 'Processing stopped by user.' emits no
\* 'Error: ...' status of the controller (the check that sees the flag
\* reports the stop in place of the failure), and a 'Processing stopped'
\* status is emitted only with the flag set.
C34_StopReportedInPlaceOfError ==
    /\ StatusSeen(MsgStoppedByUser) => \A m \in ControllerErrors : ~StatusSeen(m)
    /\ StoppedEmitted => stop_requested

\* a run has ended whose extraction failed and whose check saw the flag
C34_Witness ==
    /\ pc = "done"
    /\ ExtractFailed
    /\ StatusSeen(MsgStoppedByUser)
    /\ StatusSeen(MsgStopped)

----------------------------------------------------------------------------
(* C35 *)

\* an intermediate artifact is still there after cleanup_temp_files has
\* been called: its deletion has failed
ArtifactLeft(p) == cleanups > 0 /\ ~Falsy(p) /\ isfile(p)

CleanupDeletionFailed ==
    ArtifactLeft(temp_audio_original) \/ ArtifactLeft(temp_audio_censored)

\* C35: a run in which a deletion of cleanup_temp_files has failed still
\* ends with exactly one completion notification, after one cleanup, and
\* its success value and output path are those that the statuses of the run
\* give whether or not a deletion fails: success exactly for a run that
\* reported 'Processing complete' and was not stopped, no path for a stopped
\* run.
C35_DeletionFailureNotEscalated ==
    (pc = "done" /\ CleanupDeletionFailed) =>
        /\ Len(Completions) = 1
        /\ cleanups = 1
        /\ Completions[1].ok = (StatusSeen(MsgComplete) /\ ~StatusSeen(MsgStopped))
        /\ StatusSeen(MsgStopped) => Completions[1].path = None
        /\ Completions[1].ok => Completions[1].path \in OutputFiles

\* the deletion of the extracted audio has failed, the censored audio was
\* deleted all the same, and the run has ended with success
C35_Witness ==
    /\ pc = "done"
    /\ ArtifactLeft(temp_audio_original)
    /\ temp_audio_censored \in created \ files
    /\ Completions[1].ok

----------------------------------------------------------------------------
(* C36 *)

\* the word_info entries with a word, two timestamps and end >= start
WellFormed ==
    SelectSeq(whisper_result.words,
              LAMBDA e : /\ strip(e.word) # ""
                         /\ e.start # << >>
                         /\ e.end # << >>
                         /\ e.start[1] <= e.end[1])

\* C36: every word timestamp transcribe_audio returns has a non-empty word
\* and end >= start; the result is the well-formed entries in their order
\* and with their own timestamps (an entry with end before start is left
\* out, not reordered or corrected), and it is a list, not None.
C36_OrderedTimestampsOnly ==
    pc = "stt_parsed" =>
        /\ ~IsNone(word_timestamps)
        /\ \A k \in 1..Len(word_timestamps[1]) :
              /\ word_timestamps[1][k].word # ""
              /\ word_timestamps[1][k].end[1] >= word_timestamps[1][k].start[1]
        /\ word_timestamps[1] =
              [ k \in 1..Len(WellFormed) |->
                  Item(strip(WellFormed[k].word), WellFormed[k].start[1], WellFormed[k].end[1]) ]

\* an entry with end before start came first and was left out, the entry
\* after it was kept
C36_Witness ==
    /\ pc = "stt_parsed"
    /\ Len(whisper_result.words) = 2
    /\ whisper_result.words[1] = [word |-> " bad", start |-> << 2 >>, end |-> << 1 >>]
    /\ word_timestamps = Some(<< Item("ok", 0, 1) >>)

----------------------------------------------------------------------------
(* C37 *)

\* C37: the completion notification carries an output path only when it
\* carries success=true.
C37_PathOnlyWithSuccess ==
    pc = "done" => (Completions[1].path # None => Completions[1].ok)

----------------------------------------------------------------------------
(* C38 *)

\* the output video files written by the run that exist
OutputWritten == created \cap OutputFiles \cap files

\* C38 as stated: when a run ends with success=false, no output video file
\* created by the run exists when the completion callback is invoked.
C38_NoOutputOnFailure ==
    (pc = "done" /\ ~Completions[1].ok) => OutputWritten = { }

\* C38 as amended: when a run ends with success=false, an output video file
\* created by the run exists only if reassemble_video was invoked, and, if
\* it returned True, only if the stop flag was set.
C38_OutputLeftOnlyAfterReassembly ==
    (pc = "done" /\ ~Completions[1].ok /\ OutputWritten # { }) =>
        /\ InCalls("reassemble_video")
        /\ reassembly_ok => stop_requested

\* stop() was called while reassembly was in flight, reassembly succeeded,
\* the run ended with success=false and the output file is there
C38_Witness ==
    /\ pc = "done"
    /\ ~Completions[1].ok
    /\ reassembly_ok
    /\ StatusSeen(MsgStopReassembly)
    /\ flagSetPc = "reassemble"
    /\ OutputWritten # { }

----------------------------------------------------------------------------
(* C39 *)

\* update_progress(100) was called
FullProgressReported ==
    \E k \in 1..Len(events) : events[k].kind = "progress" /\ events[k].value = 100

\* C39 as stated: progress 1.0 is reported only in runs whose completion
\* notification carries success=true.
C39_FullProgressOnlyWithSuccess ==
    (pc = "done" /\ FullProgressReported) => Completions[1].ok

\* C39 as amended: progress 1.0 is reported only in runs whose reassembly
\* succeeded and that reported 'Processing complete'; their completion
\* notification carries success=true unless the finally block has seen the
\* stop flag.
C39_FullProgressOnlyAfterReassembly ==
    (pc = "done" /\ FullProgressReported) =>
        /\ reassembly_ok
        /\ StatusSeen(MsgComplete)
        /\ Completions[1].ok \/ StatusSeen(MsgStopped)

\* 100% was reported, then stop() set the flag before the finally block
\* read it, and the run ended with success=false
C39_Witness ==
    /\ pc = "done"
    /\ FullProgressReported
    /\ ~Completions[1].ok
    /\ StatusSeen(MsgStopped)

====
